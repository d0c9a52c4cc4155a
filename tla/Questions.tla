----------------------------- MODULE Questions ------------------------------
(***************************************************************************)
(* The questions on a provider's page, and the answers that anybody of the *)
(* community may give (handler/question.go).                               *)
(*                                                                         *)
(*   questions  GET  /providers/{id}/questions                List         *)
(*   ask        POST /providers/{id}/questions                Ask          *)
(*   answer     POST /providers/{id}/questions/{qid}/answers  Answer       *)
(*                                                                         *)
(* The page is put together of two statements, the questions and then the  *)
(* answers to those questions, each with a snapshot of its own.            *)
(***************************************************************************)
EXTENDS Notices

CONSTANTS OldAsker, OldAsked   \* whose is the question that was there before, to whom

\* The profile that is asked is looked for in the community of who asks.
ASSUME QuestionsAssumption ==
    OldAsker \in Users /\ OldAsked \in Users /\ Home[OldAsker] = Home[OldAsked]

VARIABLES questions, answers   \* the rows of the two tables

QuestionsTypeOK ==
    /\ DOMAIN questions \subseteq Ids /\ DOMAIN answers \subseteq Calls
    /\ \A i \in DOMAIN questions : questions[i] \in [by : Users, to : Users]
    /\ \A i \in DOMAIN answers : answers[i] \in [by : Users, to : DOMAIN questions]

QuestionsInit ==
    /\ questions = [i \in {0} |-> [by |-> OldAsker, to |-> OldAsked]]
    /\ answers = [i \in {} |-> None]

\* Who has a provider's profile in this community: registration makes both.
ProviderHere(u, q) == u \in Users /\ Role[u] = "prestador" /\ Home[u] = HomeOf(q)

QuestionsTo(u, q) == {i \in DOMAIN questions : questions[i].to = u /\ Home[u] = HomeOf(q)}

-----------------------------------------------------------------------------
(* Variants with a defect, for the sensitivity of the properties.          *)

\* The answers are read first.
CollectAnswers(q) ==
    /\ Serving(q, "questions")
    /\ Keep(q, "answers", {i \in DOMAIN answers : questions[answers[i].to].to = call[q].on})
    /\ UNCHANGED <<questions, answers, notices>>

ListAnswersFirst(q) ==
    \/ CollectAnswers(q)
    \/ /\ ServingAt(q, "questions", "answers")
       /\ LET found == QuestionsTo(call[q].on, q)
          IN  Show(q, found \cup {i \in call[q].page : answers[i].to \in found})
       /\ UNCHANGED <<questions, answers, notices>>

\* WHERE id = $1, in any community.
AnswerAnywhere(q) ==
    /\ Serving(q, "answer")
    /\ IF call[q].on \in DOMAIN questions
       THEN /\ answers' = Put(answers, q, [by |-> By(q), to |-> call[q].on])
            /\ Committed(q)
       ELSE Finish(q, "notFound") /\ UNCHANGED answers
    /\ UNCHANGED <<questions, notices>>

-----------------------------------------------------------------------------
(* Steps.                                                                  *)

\* Any error of the insert is answered "provider not found".
Ask(q) ==
    /\ Serving(q, "ask")
    /\ \/ call[q].on = By(q) /\ Finish(q, "forbidden") /\ UNCHANGED questions
       \/ /\ call[q].on # By(q) /\ ~ProviderHere(call[q].on, q)
          /\ Finish(q, "notFound") /\ UNCHANGED questions
       \/ /\ call[q].on # By(q) /\ ProviderHere(call[q].on, q)
          /\ questions' = Put(questions, q, [by |-> By(q), to |-> call[q].on])
          /\ \/ Goto(q, "telling")
             \/ scene.faults /\ Finish(q, "notFound")
    /\ UNCHANGED <<answers, notices>>

TellProvider(q) ==
    /\ ServingAt(q, "ask", "telling")
    /\ NotifyOrNot(q, call[q].on, "question_received", q)
    /\ UNCHANGED <<questions, answers>>

\* Without questions there is no second statement.
ReadQuestions(q) ==
    /\ Serving(q, "questions")
    /\ LET found == QuestionsTo(call[q].on, q)
       IN  IF found = {} THEN Show(q, {}) ELSE Keep(q, "answers", found)
    /\ UNCHANGED <<questions, answers, notices>>

ReadAnswers(q) ==
    /\ ServingAt(q, "questions", "answers")
    /\ Show(q, call[q].page \cup {i \in DOMAIN answers : answers[i].to \in call[q].page})
    /\ UNCHANGED <<questions, answers, notices>>

ListQuestions(q) == ReadQuestions(q) \/ ReadAnswers(q)

\* Nobody is told of an answer.
Answer(q) ==
    /\ Serving(q, "answer")
    /\ IF call[q].on \in DOMAIN questions /\ Home[questions[call[q].on].by] = HomeOf(q)
       THEN /\ answers' = Put(answers, q, [by |-> By(q), to |-> call[q].on])
            /\ Committed(q)
       ELSE Finish(q, "notFound") /\ UNCHANGED answers
    /\ UNCHANGED <<questions, notices>>

QuestionsStep(q) ==
    /\ Ask(q) \/ TellProvider(q) \/ ListQuestions(q) \/ Answer(q)
    /\ UNCHANGED scene

-----------------------------------------------------------------------------
(* Properties.                                                             *)

\* What a page shows does not come before what it leaves out: if it has a
\* question or an answer, then it has every answer that had been given when
\* that one was written, to the questions it has (handler/question.go:75-120,
\* two statements while others write).
PageKeepsOrder ==
    \A q \in Calls : Served(q, "questions") =>
        \A i \in call[q].page \cap Calls, j \in DOMAIN answers :
            (j \in call[i].after /\ answers[j].to \in call[q].page) => j \in call[q].page
=============================================================================
