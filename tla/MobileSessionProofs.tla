------------------------ MODULE MobileSessionProofs -------------------------
(***************************************************************************)
(* What the app and the server keep for any number of calls and tokens,    *)
(* and at any depth of failures: the types, that no call takes effect      *)
(* twice, and that a session nothing has spoiled survives.                 *)
(***************************************************************************)
EXTENDS MobileSession, TLAPS

\* How a call nests its failures, and where one may be that has taken effect:
\* only where nothing sends it again.  A block around one that handles a failure
\* of the call itself has sent the call again already.
Effect(q) ==
    LET c == call[q] IN
    /\ c.pc \in {"new", "named"} => c.asking = TheCall /\ c.blocks = <<>> /\ job[q].pc = "idle"
                                      /\ executed[q] = 0
    /\ c.pc \in {"resolved", "saved"} => job[q].pc = "idle"
    /\ c.pc = "saved" => Handling(q) /\ Top(q).retried
    /\ c.pc = "failed" => Handling(q)
    /\ \A j \in DOMAIN c.blocks : c.blocks[j].request = TheCall =>
          \A i \in 1 .. j - 1 : c.blocks[i].retried
    /\ c.pc \in {"waiting", "resolved"} /\ c.asking = TheCall =>
          \A i \in DOMAIN c.blocks : c.blocks[i].retried
    /\ executed[q] <= 1
    /\ executed[q] = 1 =>
          \/ c.pc \in {"done", "failed", "leaving"} /\ ~Asked(q, "received")
          \/ c.pc = "waiting" /\ Asked(q, "ok")
          \/ c.pc = "resolved" /\ c.asking = TheCall

\* While nothing has spoiled the session, only calls fail with 401, never a
\* refresh, and a renewal has in hand the token that is live, or its successor.
Sound(q) ==
    LET c == call[q] IN
    /\ c.pc # "failed"
    /\ \A j \in DOMAIN c.blocks : c.blocks[j].request = TheCall
    /\ c.pc \in {"waiting", "resolved"} => (c.asking # TheCall <=> Renewing(q))
    /\ c.asking # TheCall /\ job[q].pc # "idle" => c.pc = "waiting"
    /\ Renewing(q) =>
          \/ c.pc = "resolved" /\ c.pair \in live
          \/ c.pc = "waiting" /\ job[q].pc \in {"received", "checked"}
               /\ job[q].token = stored /\ stored \in live
          \/ c.pc = "waiting" /\ job[q].pc = "revoked"
          \/ c.pc = "waiting" /\ job[q].pc = "ok" /\ job[q].token \in live

\* One renewal at a time, and a live token stored outside of it.
Alive ==
    /\ \A q \in Calls : Sound(q)
    /\ \A p, q \in Calls : Renewing(p) /\ Renewing(q) => p = q
    /\ stored # 0
    /\ (\A q \in Calls : ~Renewing(q)) => stored \in live

IInv ==
    /\ TypeOK
    /\ \A q \in Calls : Effect(q)
    /\ ~spoiled => Alive

-----------------------------------------------------------------------------
(* Blocks.                                                                 *)

\* There may be nothing to handle.
LEMMA NoBlocks == <<>> \in Seq(Block)
  OBVIOUS

\* A failure more.
LEMMA PushedBlocks ==
    ASSUME NEW b \in Seq(Block), NEW x \in Block
    PROVE  /\ Append(b, x) \in Seq(Block)
           /\ Len(Append(b, x)) = Len(b) + 1 /\ DOMAIN Append(b, x) = 1 .. Len(b) + 1
           /\ \A i \in DOMAIN b : Append(b, x)[i] = b[i]
           /\ Append(b, x)[Len(b) + 1] = x
  OBVIOUS

\* A failure less.
LEMMA PoppedBlocks ==
    ASSUME NEW b \in Seq(Block), b # <<>>
    PROVE  LET p == SubSeq(b, 1, Len(b) - 1) IN
           /\ p \in Seq(Block)
           /\ Len(b) \in Nat \ {0} /\ DOMAIN b = 1 .. Len(b)
           /\ Len(p) = Len(b) - 1 /\ DOMAIN p = 1 .. Len(b) - 1
           /\ \A i \in DOMAIN p : p[i] = b[i]
           /\ Len(b) # 1 => p # <<>>
<1>1. Len(b) \in Nat /\ Len(b) # 0 /\ DOMAIN b = 1 .. Len(b)
  OBVIOUS
<1> DEFINE p == SubSeq(b, 1, Len(b) - 1)
<1>2. p \in Seq(Block) /\ Len(p) = Len(b) - 1 /\ \A i \in 1 .. Len(b) - 1 : p[i] = b[i]
  BY <1>1
<1>3. DOMAIN p = 1 .. Len(b) - 1 /\ (Len(b) # 1 => p # <<>>)
  BY <1>1, <1>2
<1> HIDE DEF p
<1> QED
  BY <1>1, <1>2, <1>3 DEF p

\* The innermost failure has led to a new attempt.
LEMMA MarkedBlocks ==
    ASSUME NEW b \in Seq(Block), b # <<>>
    PROVE  LET m == [b EXCEPT ![Len(b)] = [@ EXCEPT !.retried = TRUE]] IN
           /\ m \in Seq(Block) /\ m # <<>>
           /\ Len(b) \in Nat \ {0} /\ DOMAIN b = 1 .. Len(b)
           /\ Len(m) = Len(b) /\ DOMAIN m = 1 .. Len(b)
           /\ \A i \in 1 .. Len(b) - 1 : m[i] = b[i]
           /\ m[Len(b)].retried = TRUE /\ m[Len(b)].request = b[Len(b)].request
<1>1. Len(b) \in Nat /\ Len(b) # 0 /\ DOMAIN b = 1 .. Len(b)
  OBVIOUS
<1> DEFINE n == Len(b)
           m == [b EXCEPT ![n] = [@ EXCEPT !.retried = TRUE]]
<1>2. b[n] \in Block
  BY <1>1
<1>3. [b[n] EXCEPT !.retried = TRUE] \in Block
  BY <1>2 DEF Block
<1>4. m = [i \in 1 .. n |-> IF i = n THEN [b[n] EXCEPT !.retried = TRUE] ELSE b[i]]
  BY <1>1
<1>5. m \in Seq(Block) /\ Len(m) = n
  BY <1>1, <1>3, <1>4
<1>6. m[n].retried = TRUE /\ m[n].request = b[n].request
  BY <1>1, <1>2, <1>4 DEF Block
<1> QED
  BY <1>1, <1>4, <1>5, <1>6

-----------------------------------------------------------------------------
(* Types.                                                                  *)

\* A request that is sent keeps the types.
LEMMA SentIsTyped ==
    ASSUME TypeOK, NEW q \in Calls, NEW request \in Stored, NEW access \in Stored,
           NEW blocks \in Seq(Block), Send(q, request, access, blocks)
    PROVE  call' \in [Calls -> Call] /\ job' \in [Calls -> Job]
<1>1. [call[q] EXCEPT !.pc = "waiting", !.asking = request, !.blocks = blocks] \in Call
  BY DEF TypeOK, Call
<1>2. [pc |-> "received",
       token |-> IF request = TheCall THEN (IF stored # 0 THEN stored ELSE access) ELSE request]
         \in Job
  BY DEF TypeOK, Job
<1> QED
  BY <1>1, <1>2 DEF TypeOK, Send

\* The app keeps the types.  A retry needs that there is a failure to retry.
LEMMA StepIsTyped ==
    ASSUME TypeOK, NEW q \in Calls, Effect(q), Step(q)
    PROVE  TypeOK'
<1> USE MobileSessionAssumption
<1>1. /\ call \in [Calls -> Call] /\ call[q] \in Call /\ job \in [Calls -> Job]
      /\ job[q] \in Job /\ Blocks(q) \in Seq(Block) /\ stored \in Stored
      /\ 0 \in Stored /\ TheCall \in Stored /\ call[q].asking \in Stored /\ call[q].pair \in Stored
      /\ job[q].token \in Stored
  BY DEF TypeOK, Call, Job, Blocks, Stored, TheCall, Pairs
<1>2. [request |-> call[q].asking, retried |-> FALSE] \in Block
  BY <1>1 DEF Block
<1>3. Push(q) \in Seq(Block)
  BY <1>1, <1>2, PushedBlocks DEF Push
<1>4. Handling(q) => Pop(q) \in Seq(Block) /\ Marked(q) \in Seq(Block) /\ Top(q) \in Block
  <2> HAVE Handling(q)
  <2>1. Blocks(q) # <<>> /\ Len(Blocks(q)) \in 1 .. Len(Blocks(q))
    BY <1>1 DEF Handling
  <2>2. Pop(q) \in Seq(Block)
    BY <1>1, <2>1, PoppedBlocks DEF Pop
  <2>3. Marked(q) \in Seq(Block)
    BY <1>1, <2>1, MarkedBlocks DEF Marked
  <2>4. Top(q) \in Block
    BY <1>1, <2>1 DEF Top
  <2> QED
    BY <2>2, <2>3, <2>4
<1>5. CASE Name(q)
  BY <1>1, <1>5 DEF TypeOK, Name, Call, server
<1>6. CASE Start(q)
  BY <1>1, <1>6, NoBlocks, SentIsTyped DEF TypeOK, Start, server
<1>7. CASE Resolve(q)
  BY <1>1, <1>7 DEF TypeOK, Resolve, Does, Call, Job, server
<1>8. CASE Save(q)
  BY <1>1, <1>4, <1>8 DEF TypeOK, Save, Renewing, Call, server
<1>9. CASE Retry(q)
  <2>1. Top(q).request \in Stored
    BY <1>4, <1>9 DEF Effect, Retry, At, Block
  <2> QED
    BY <1>1, <1>9, <2>1, SentIsTyped DEF TypeOK, Retry, server
<1>10. CASE Return(q)
  BY <1>1, <1>4, <1>10 DEF TypeOK, Return, Call, server
<1>11. CASE Finish(q)
  BY <1>1, <1>11 DEF TypeOK, Finish, Goto, Call, server
<1>12. CASE Renew(q)
  BY <1>1, <1>3, <1>12, SentIsTyped DEF TypeOK, Renew, server
<1>13. CASE NothingStored(q) \/ Refused(q) \/ GiveUp(q)
  <2>1. Fail(q) /\ UNCHANGED <<stored, job, server>>
    BY <1>13 DEF NothingStored, Refused, GiveUp
  <2>2. call' \in [Calls -> Call]
    BY <1>1, <2>1 DEF Fail, Goto, Call
  <2>3. spoiled' \in BOOLEAN
    BY <1>13 DEF TypeOK, NothingStored, Refused, GiveUp, Handling
  <2> QED
    BY <2>1, <2>2, <2>3 DEF TypeOK, server
<1>14. CASE Clear(q)
  BY <1>1, <1>4, <1>14 DEF Effect, At, TypeOK, Clear, Call, server
<1>15. CASE Leave(q)
  BY <1>1, <1>15 DEF TypeOK, Leave, Goto, Call, server
<1> QED
  BY <1>5, <1>6, <1>7, <1>8, <1>9, <1>10, <1>11, <1>12, <1>13, <1>14, <1>15 DEF Step

\* So does the server.
LEMMA WorkIsTyped ==
    ASSUME TypeOK, NEW q \in Calls, Work(q)
    PROVE  TypeOK'
<1> USE MobileSessionAssumption DEF server, app, Does, Job
<1>1. CASE Serve(q)
  BY <1>1 DEF TypeOK, Serve
<1>2. CASE Refuse(q) \/ Deny(q) \/ Check(q)
  BY <1>2 DEF TypeOK, Refuse, Deny, Check
<1>3. CASE Kill(q) \/ Revoke(q)
  BY <1>3 DEF TypeOK, Kill, Revoke
<1>4. CASE Issue(q)
  <2>1. issued + 1 \in Pairs /\ issued + 1 \in Stored
    BY <1>4 DEF TypeOK, Issue, Pairs, Stored
  <2>2. job' \in [Calls -> Job]
    BY <1>4, <2>1 DEF TypeOK, Issue
  <2> QED
    BY <1>4, <2>1, <2>2 DEF TypeOK, Issue, Pairs
<1>5. CASE RefreshFails(q)
  BY <1>5 DEF TypeOK, RefreshFails
<1> QED
  BY <1>1, <1>2, <1>3, <1>4, <1>5 DEF Work

\* And so does everything.
LEMMA NextIsTyped == IInv /\ [Next]_vars => TypeOK'
<1> SUFFICES ASSUME TypeOK, \A q \in Calls : Effect(q), [Next]_vars PROVE TypeOK'
  BY DEF IInv
<1>1. CASE \E q \in Calls : Step(q) \/ Work(q)
  BY <1>1, StepIsTyped, WorkIsTyped
<1>2. CASE Restart
  <2>1. \A q \in Calls : [call[q] EXCEPT !.pc = "done", !.blocks = <<>>] \in Call
    <3> TAKE q \in Calls
    <3>1. call[q] \in Call
      BY DEF TypeOK
    <3> QED
      BY <3>1, NoBlocks DEF Call
  <2> QED
    BY <1>2, <2>1 DEF TypeOK, Restart, server
<1>3. CASE \E k \in fresh : Expire(k)
  BY <1>3 DEF TypeOK, Expire, app
<1>4. CASE EndSessions
  BY <1>4 DEF TypeOK, EndSessions, app
<1>5. CASE UNCHANGED vars
  BY <1>5 DEF TypeOK, vars
<1> QED
  BY <1>1, <1>2, <1>3, <1>4, <1>5 DEF Next

-----------------------------------------------------------------------------
(* A call takes effect once.                                               *)

\* A step of one call leaves the others alone.
LEMMA TouchesOne ==
    ASSUME TypeOK, NEW q \in Calls, Step(q) \/ Work(q)
    PROVE  \A p \in Calls \ {q} : /\ call'[p] = call[p] /\ job'[p] = job[p]
                                  /\ executed'[p] = executed[p]
<1> USE DEF TypeOK, server, app, Goto, Does, Send, Fail
<1>1. CASE Step(q)
  BY <1>1 DEF Step, Name, Start, Resolve, Save, Retry, Return, Finish, Renew, NothingStored,
              Refused, GiveUp, Clear, Leave
<1>2. CASE Work(q)
  BY <1>2 DEF Work, Serve, Refuse, Deny, Check, Kill, Revoke, Issue, RefreshFails
<1> QED
  BY <1>1, <1>2

\* Calls that are left alone keep what they have.
LEMMA EffectStays ==
    ASSUME NEW q \in Calls, Effect(q), call'[q] = call[q], job'[q] = job[q],
           executed'[q] = executed[q]
    PROVE  Effect(q)'
  BY DEF Effect, Handling, Top, Blocks, Asked

\* What a request looks like when it is sent.
LEMMA Sent ==
    ASSUME TypeOK, NEW q \in Calls, NEW request, NEW access, NEW blocks,
           Send(q, request, access, blocks)
    PROVE  /\ call'[q].pc = "waiting" /\ call'[q].asking = request /\ call'[q].blocks = blocks
           /\ call'[q].pair = call[q].pair /\ call'[q].body = call[q].body
           /\ job'[q].pc = "received" /\ (request # TheCall => job'[q].token = request)
<1>1. call \in [Calls -> Call] /\ call[q] \in Call /\ job \in [Calls -> Job]
  BY DEF TypeOK
<1>2. /\ call'[q] = [call[q] EXCEPT !.pc = "waiting", !.asking = request, !.blocks = blocks]
      /\ job'[q] = [pc |-> "received",
                    token |-> IF request = TheCall THEN (IF stored # 0 THEN stored ELSE access)
                                                   ELSE request]
  BY <1>1 DEF Send
<1> QED
  BY <1>1, <1>2 DEF Call

\* The app sends a call again only where it has not taken effect.
LEMMA StepKeepsEffect ==
    ASSUME TypeOK, NEW q \in Calls, Effect(q), Step(q)
    PROVE  Effect(q)'
<1>1. /\ call \in [Calls -> Call] /\ call[q] \in Call /\ job \in [Calls -> Job]
      /\ job[q] \in Job /\ Blocks(q) \in Seq(Block) /\ Blocks(q) = call[q].blocks
      /\ executed \in [Calls -> Nat] /\ executed[q] \in Nat
  BY DEF TypeOK, Call, Blocks
<1>2. CASE Name(q)
  BY <1>1, <1>2 DEF Name, At, Call, server, Effect, Handling, Top, Blocks, Asked
<1>3. CASE Start(q)
  <2>1. Send(q, TheCall, 0, <<>>) /\ executed' = executed
    BY <1>3 DEF Start, server
  <2>2. executed[q] = 0
    BY <1>3 DEF Start, At, Effect
  <2> QED
    BY <1>1, <2>1, <2>2, Sent DEF Effect, Handling, Top, Blocks, Asked
<1>4. CASE Resolve(q)
  BY <1>1, <1>4 DEF Resolve, Answer, At, Does, Call, Job, server, Effect, Handling, Top, Blocks, Asked
<1>5. CASE Save(q)
  <2>1. Handling(q) /\ ~Top(q).retried /\ call[q].pc = "resolved"
    BY <1>5 DEF Save, Renewing, At
  <2>2. /\ call'[q].pc = "saved" /\ call'[q].blocks = Marked(q) /\ call'[q].asking = call[q].asking
        /\ job'[q] = job[q] /\ executed'[q] = executed[q]
    BY <1>1, <1>5 DEF Save, Call, server
  <2>3. call[q].asking # TheCall
    BY <1>1, <2>1 DEF Effect, Handling, Top
  <2>4. /\ Marked(q) # <<>> /\ Len(Blocks(q)) \in Nat \ {0}
        /\ DOMAIN Blocks(q) = 1 .. Len(Blocks(q))
        /\ Len(Marked(q)) = Len(Blocks(q)) /\ DOMAIN Marked(q) = 1 .. Len(Blocks(q))
        /\ \A i \in 1 .. Len(Blocks(q)) - 1 : Marked(q)[i] = Blocks(q)[i]
        /\ Marked(q)[Len(Blocks(q))].retried = TRUE
        /\ Marked(q)[Len(Blocks(q))].request = Blocks(q)[Len(Blocks(q))].request
    BY <1>1, <2>1, MarkedBlocks DEF Marked, Handling
  <2>5. \A j \in DOMAIN Marked(q) : Marked(q)[j].request = TheCall =>
           \A i \in 1 .. j - 1 : Marked(q)[i].retried
    BY <1>1, <2>4 DEF Effect
  <2>6. executed[q] # 1
    BY <2>1, <2>3 DEF Effect
  <2> QED
    BY <1>1, <2>1, <2>2, <2>4, <2>5, <2>6 DEF Effect, Handling, Top, Blocks
<1>6. CASE Retry(q)
  <2>1. Send(q, Top(q).request, call[q].pair, Blocks(q)) /\ executed' = executed
    BY <1>6 DEF Retry, server
  <2>2. call[q].pc = "saved" /\ executed[q] # 1 /\ Top(q).retried /\ Handling(q)
    BY <1>6 DEF Retry, At, Effect
  <2>3. Top(q).request = TheCall => \A i \in DOMAIN Blocks(q) : Blocks(q)[i].retried
    <3> HAVE Top(q).request = TheCall
    <3>1. Len(Blocks(q)) \in Nat \ {0} /\ DOMAIN Blocks(q) = 1 .. Len(Blocks(q))
      BY <1>1, <2>2, PoppedBlocks DEF Handling
    <3> QED
      BY <1>1, <2>2, <3>1 DEF Effect, Top
  <2> QED
    BY <1>1, <2>1, <2>2, <2>3, Sent DEF Effect, Handling, Top, Blocks
<1>7. CASE Return(q)
  <2>1. /\ call'[q].pc = "resolved" /\ call'[q].blocks = Pop(q) /\ call'[q].asking = call[q].asking
        /\ job'[q] = job[q] /\ executed'[q] = executed[q] /\ call[q].pc = "resolved" /\ Handling(q)
    BY <1>1, <1>7 DEF Return, Call, server, At
  <2>2. /\ Len(Blocks(q)) \in Nat \ {0} /\ DOMAIN Blocks(q) = 1 .. Len(Blocks(q))
        /\ DOMAIN Pop(q) = 1 .. Len(Blocks(q)) - 1
        /\ \A i \in DOMAIN Pop(q) : Pop(q)[i] = Blocks(q)[i]
    BY <1>1, <2>1, PoppedBlocks DEF Pop, Handling
  <2>3. \A j \in DOMAIN Pop(q) : Pop(q)[j].request = TheCall =>
           \A i \in 1 .. j - 1 : Pop(q)[i].retried
    <3> TAKE j \in DOMAIN Pop(q)
    <3> HAVE Pop(q)[j].request = TheCall
    <3> TAKE i \in 1 .. j - 1
    <3>1. j \in 1 .. Len(Blocks(q)) - 1 /\ i \in 1 .. Len(Blocks(q)) - 1
      BY <2>2
    <3>2. Blocks(q)[j].request = TheCall /\ j \in DOMAIN Blocks(q)
      BY <2>2, <3>1
    <3>3. Blocks(q)[i].retried
      BY <1>1, <3>2 DEF Effect
    <3> QED
      BY <2>2, <3>1, <3>3
  <2>4. call[q].asking = TheCall => \A i \in DOMAIN Pop(q) : Pop(q)[i].retried
    BY <1>1, <2>1, <2>2 DEF Effect
  <2> QED
    BY <1>1, <2>1, <2>3, <2>4 DEF Effect, Asked
<1>8. CASE Finish(q)
  BY <1>1, <1>8 DEF Finish, Goto, At, Call, server, Effect, Handling, Top, Blocks, Asked
<1>9. CASE Renew(q)
  <2>1. Send(q, stored, 0, Push(q)) /\ executed' = executed /\ stored # TheCall
    BY <1>9 DEF Renew, server, TheCall
  <2>2. call[q].pc = "waiting" /\ executed[q] # 1
    BY <1>9 DEF Renew, Answer, At, Effect, Asked
  <2>3. [request |-> call[q].asking, retried |-> FALSE] \in Block
    BY <1>1 DEF Block, Call
  <2>4. /\ DOMAIN Push(q) = 1 .. Len(Blocks(q)) + 1 /\ Len(Blocks(q)) \in Nat
        /\ DOMAIN Blocks(q) = 1 .. Len(Blocks(q))
        /\ \A i \in DOMAIN Blocks(q) : Push(q)[i] = Blocks(q)[i]
        /\ Push(q)[Len(Blocks(q)) + 1].request = call[q].asking
    BY <1>1, <2>3, PushedBlocks DEF Push
  <2>5. \A j \in DOMAIN Push(q) : Push(q)[j].request = TheCall =>
           \A i \in 1 .. j - 1 : Push(q)[i].retried
    <3> TAKE j \in DOMAIN Push(q)
    <3> HAVE Push(q)[j].request = TheCall
    <3> TAKE i \in 1 .. j - 1
    <3>1. i \in DOMAIN Blocks(q)
      BY <2>4
    <3>2. CASE j \in DOMAIN Blocks(q)
      <4>1. Blocks(q)[j].request = TheCall
        BY <2>4, <3>2
      <4> QED
        BY <1>1, <2>4, <3>1, <3>2, <4>1 DEF Effect
    <3>3. CASE j = Len(Blocks(q)) + 1
      <4>1. call[q].asking = TheCall
        BY <2>4, <3>3
      <4> QED
        BY <1>1, <2>2, <2>4, <3>1, <4>1 DEF Effect
    <3> QED
      BY <2>4, <3>2, <3>3
  <2> QED
    BY <1>1, <2>1, <2>2, <2>5, Sent DEF Effect
<1>10. CASE NothingStored(q) \/ Refused(q) \/ GiveUp(q)
  <2>1. Fail(q) /\ call[q].pc = "waiting" /\ job' = job /\ executed' = executed
    BY <1>10 DEF NothingStored, Refused, GiveUp, Answer, At, server
  <2> QED
    BY <1>1, <2>1 DEF Fail, Goto, Call, Effect, Handling, Top, Blocks, Asked
<1>11. CASE Clear(q)
  <2>1. /\ call'[q].pc = (IF Len(Blocks(q)) = 1 THEN "done" ELSE "failed")
        /\ call'[q].blocks = Pop(q) /\ call'[q].asking = call[q].asking
        /\ job'[q] = job[q] /\ executed'[q] = executed[q] /\ call[q].pc = "failed"
    BY <1>1, <1>11 DEF Clear, Call, server, At
  <2>2. Handling(q)
    BY <2>1 DEF Effect
  <2>3. /\ Len(Blocks(q)) \in Nat \ {0} /\ DOMAIN Blocks(q) = 1 .. Len(Blocks(q))
        /\ DOMAIN Pop(q) = 1 .. Len(Blocks(q)) - 1
        /\ \A i \in DOMAIN Pop(q) : Pop(q)[i] = Blocks(q)[i]
        /\ Len(Blocks(q)) # 1 => Pop(q) # <<>>
    BY <1>1, <2>2, PoppedBlocks DEF Pop, Handling
  <2>4. \A j \in DOMAIN Pop(q) : Pop(q)[j].request = TheCall =>
           \A i \in 1 .. j - 1 : Pop(q)[i].retried
    <3> TAKE j \in DOMAIN Pop(q)
    <3> HAVE Pop(q)[j].request = TheCall
    <3> TAKE i \in 1 .. j - 1
    <3>1. j \in 1 .. Len(Blocks(q)) - 1 /\ i \in 1 .. Len(Blocks(q)) - 1
      BY <2>3
    <3>2. Blocks(q)[j].request = TheCall /\ j \in DOMAIN Blocks(q)
      BY <2>3, <3>1
    <3>3. Blocks(q)[i].retried
      BY <1>1, <3>2 DEF Effect
    <3> QED
      BY <2>3, <3>1, <3>3
  <2>5. call'[q].pc = "failed" => Pop(q) # <<>>
    BY <2>1, <2>3
  <2> QED
    BY <1>1, <2>1, <2>4, <2>5 DEF Effect, Handling, Blocks, Asked
<1>12. CASE Leave(q)
  BY <1>1, <1>12 DEF Leave, Goto, At, Call, server, Effect, Handling, Top, Blocks, Asked
<1> QED
  BY <1>2, <1>3, <1>4, <1>5, <1>6, <1>7, <1>8, <1>9, <1>10, <1>11, <1>12 DEF Step

\* The server executes a call only where it has not taken effect.
LEMMA WorkKeepsEffect ==
    ASSUME TypeOK, NEW q \in Calls, Effect(q), Work(q)
    PROVE  Effect(q)'
<1>1. /\ job \in [Calls -> Job] /\ job[q] \in Job /\ executed \in [Calls -> Nat]
      /\ call' = call
  BY DEF TypeOK, Work, app, Serve, Refuse, Deny, Check, Kill, Revoke, Issue, RefreshFails
<1>2. CASE Serve(q)
  <2>1. job[q].pc = "received" /\ call[q].asking = TheCall /\ job'[q].pc = "ok"
    BY <1>1, <1>2 DEF Serve, Asked, Does, Job
  <2>2. executed[q] = 0 /\ executed'[q] = 1
    BY <1>1, <1>2, <2>1 DEF Serve, Effect, Asked
  <2> QED
    BY <1>1, <2>1, <2>2 DEF Effect, Handling, Top, Blocks, Asked, TypeOK, Call
<1>3. CASE ~Serve(q)
  <2>1. /\ executed' = executed /\ job'[q].pc # "received" /\ job[q].pc # "idle"
        /\ job[q].pc # "ok"
    BY <1>1, <1>3 DEF Work, server, Asked, AskedToRefresh, Does, Job, Refuse, Deny, Check, Kill,
                      Revoke, Issue, RefreshFails
  <2> QED
    BY <1>1, <2>1 DEF Effect, Handling, Top, Blocks, Asked
<1> QED
  BY <1>2, <1>3

-----------------------------------------------------------------------------
(* The session survives.                                                   *)

\* The others do not notice what one call does, unless it stores another pair
\* while they renew.
LEMMA AliveStays ==
    ASSUME Alive, NEW q \in Calls,
           \A p \in Calls \ {q} : call'[p] = call[p] /\ job'[p] = job[p],
           Sound(q)', stored' # 0,
           \A p \in Calls \ {q} : Renewing(p) =>
              ~Renewing(q)' /\ stored' = stored /\ live \subseteq live',
           (\A p \in Calls : ~Renewing(p)') => stored' \in live'
    PROVE  Alive'
<1>1. \A p \in Calls \ {q} : Renewing(p)' <=> Renewing(p)
  BY DEF Renewing, Handling, Top, Blocks
<1>2. \A p \in Calls \ {q} : Sound(p)'
  <2> TAKE p \in Calls \ {q}
  <2>1. Sound(p)
    BY DEF Alive
  <2>2. call'[p] = call[p] /\ job'[p] = job[p] /\ (Renewing(p)' <=> Renewing(p))
    BY <1>1
  <2> QED
    BY <2>1, <2>2 DEF Sound
<1>3. \A p, r \in Calls : Renewing(p)' /\ Renewing(r)' => p = r
  BY <1>1 DEF Alive
<1> QED
  BY <1>2, <1>3 DEF Alive

\* A step that neither begins nor ends a renewal.
LEMMA AliveQuietly ==
    ASSUME Alive, NEW q \in Calls,
           \A p \in Calls \ {q} : call'[p] = call[p] /\ job'[p] = job[p],
           Sound(q)', Renewing(q)' <=> Renewing(q), stored' = stored, live \subseteq live'
    PROVE  Alive'
<1>1. \A p \in Calls \ {q} : Renewing(p)' <=> Renewing(p)
  BY DEF Renewing, Handling, Top, Blocks
<1>2. (\A p \in Calls : ~Renewing(p)') => stored' \in live'
  BY <1>1 DEF Alive
<1>3. \A p \in Calls \ {q} : Renewing(p) => ~Renewing(q)'
  BY DEF Alive
<1> QED
  BY <1>2, <1>3, AliveStays DEF Alive

\* The app loses no session that is not spoiled.
LEMMA StepKeepsAlive ==
    ASSUME TypeOK, Alive, ~spoiled', NEW q \in Calls, Effect(q), Step(q)
    PROVE  Alive'
<1>1. /\ call \in [Calls -> Call] /\ call[q] \in Call /\ job \in [Calls -> Job]
      /\ job[q] \in Job /\ Blocks(q) \in Seq(Block) /\ Blocks(q) = call[q].blocks
      /\ Sound(q) /\ stored # 0
  BY DEF TypeOK, Call, Blocks, Alive
<1>2. \A p \in Calls \ {q} : call'[p] = call[p] /\ job'[p] = job[p]
  BY TouchesOne
<1>3. CASE Name(q)
  <2>1. /\ call'[q].pc \in {"leaving", "named"} /\ call'[q].blocks = <<>> /\ call[q].blocks = <<>>
        /\ call'[q].asking = TheCall /\ stored' = stored /\ live' = live
    BY <1>1, <1>3 DEF Name, Call, server, Effect, At
  <2>2. ~Renewing(q) /\ ~Renewing(q)'
    BY <2>1 DEF Renewing, Handling, Blocks
  <2> QED
    BY <1>1, <1>2, <2>1, <2>2, AliveQuietly DEF Sound
<1>4. CASE Start(q)
  <2>1. Send(q, TheCall, 0, <<>>) /\ stored' = stored /\ live' = live /\ call[q].blocks = <<>>
    BY <1>4 DEF Start, server, Effect, At
  <2>2. call'[q].pc = "waiting" /\ call'[q].blocks = <<>> /\ call'[q].asking = TheCall
    BY <2>1, Sent
  <2>3. ~Renewing(q) /\ ~Renewing(q)'
    BY <2>1, <2>2 DEF Renewing, Handling, Blocks
  <2> QED
    BY <1>1, <1>2, <2>1, <2>2, <2>3, AliveQuietly DEF Sound
<1>5. CASE Resolve(q)
  <2>1. /\ call[q].pc = "waiting" /\ job[q].pc = "ok" /\ job'[q].pc = "idle"
        /\ call'[q].pc = "resolved" /\ call'[q].pair = job[q].token
        /\ call'[q].blocks = call[q].blocks /\ call'[q].asking = call[q].asking
        /\ stored' = stored /\ live' = live
    BY <1>1, <1>5 DEF Resolve, Answer, At, Does, Call, Job, server
  <2>2. Renewing(q)' <=> Renewing(q)
    BY <2>1 DEF Renewing, Handling, Top, Blocks
  <2>3. Sound(q)'
    BY <1>1, <2>1, <2>2 DEF Sound
  <2> QED
    BY <1>2, <2>1, <2>2, <2>3, AliveQuietly
<1>6. CASE Save(q)
  <2>1. Renewing(q) /\ call[q].pc = "resolved"
    BY <1>6 DEF Save, At
  <2>2. /\ call'[q].pc = "saved" /\ call'[q].blocks = Marked(q) /\ call'[q].asking = call[q].asking
        /\ job'[q] = job[q] /\ stored' = call[q].pair /\ live' = live
    BY <1>1, <1>6 DEF Save, Call, server
  <2>3. /\ Len(Blocks(q)) \in Nat \ {0} /\ DOMAIN Blocks(q) = 1 .. Len(Blocks(q))
        /\ Len(Marked(q)) = Len(Blocks(q)) /\ DOMAIN Marked(q) = 1 .. Len(Blocks(q))
        /\ \A i \in 1 .. Len(Blocks(q)) - 1 : Marked(q)[i] = Blocks(q)[i]
        /\ Marked(q)[Len(Blocks(q))].retried = TRUE
        /\ Marked(q)[Len(Blocks(q))].request = Blocks(q)[Len(Blocks(q))].request
    BY <1>1, <2>1, MarkedBlocks DEF Marked, Handling, Renewing
  <2>4. \A j \in DOMAIN Marked(q) : Marked(q)[j].request = TheCall
    BY <1>1, <2>3 DEF Sound
  <2>5. ~Renewing(q)'
    BY <2>2, <2>3 DEF Renewing, Top, Blocks
  <2>6. stored' \in live' /\ stored' # 0
    BY <1>1, <2>1, <2>2 DEF Sound, TypeOK
  <2>7. job'[q].pc = "idle"
    BY <2>1, <2>2 DEF Effect
  <2>8. Sound(q)'
    BY <2>2, <2>4, <2>5, <2>7 DEF Sound
  <2>9. \A p \in Calls \ {q} : ~Renewing(p)
    BY <2>1 DEF Alive
  <2> QED
    BY <1>2, <2>5, <2>6, <2>8, <2>9, AliveStays
<1>7. CASE Retry(q)
  <2>1. /\ Send(q, Top(q).request, call[q].pair, Blocks(q)) /\ stored' = stored /\ live' = live
        /\ Handling(q) /\ Top(q).retried
    BY <1>7 DEF Retry, server, Effect, At
  <2>2. Len(Blocks(q)) \in DOMAIN Blocks(q)
    BY <1>1, <2>1, PoppedBlocks DEF Handling
  <2>3. Top(q).request = TheCall
    BY <1>1, <2>2 DEF Sound, Top
  <2>4. /\ call'[q].pc = "waiting" /\ call'[q].asking = TheCall /\ call'[q].blocks = call[q].blocks
    BY <1>1, <2>1, <2>3, Sent
  <2>5. ~Renewing(q) /\ ~Renewing(q)'
    BY <2>1, <2>4 DEF Renewing, Top, Blocks
  <2>6. Sound(q)'
    BY <1>1, <2>4, <2>5 DEF Sound
  <2> QED
    BY <1>2, <2>1, <2>5, <2>6, AliveQuietly
<1>8. CASE Return(q)
  <2>1. /\ call'[q].pc = "resolved" /\ call'[q].blocks = Pop(q) /\ call'[q].asking = call[q].asking
        /\ job'[q] = job[q] /\ stored' = stored /\ live' = live /\ call[q].pc = "resolved"
        /\ Handling(q) /\ Top(q).retried
    BY <1>1, <1>8 DEF Return, Call, server, At
  <2>2. /\ Len(Pop(q)) = Len(Blocks(q)) - 1
        /\ Len(Blocks(q)) \in Nat \ {0} /\ DOMAIN Blocks(q) = 1 .. Len(Blocks(q))
        /\ DOMAIN Pop(q) = 1 .. Len(Blocks(q)) - 1 /\ Pop(q) \in Seq(Block)
        /\ \A i \in DOMAIN Pop(q) : Pop(q)[i] = Blocks(q)[i]
    BY <1>1, <2>1, PoppedBlocks DEF Pop, Handling
  <2>3. ~Renewing(q) /\ call[q].asking = TheCall
    BY <1>1, <2>1 DEF Renewing, Sound
  <2>4. \A i \in DOMAIN Pop(q) : Pop(q)[i].retried /\ Pop(q)[i].request = TheCall
    BY <1>1, <2>1, <2>2, <2>3 DEF Effect, Sound
  <2>5. ~Renewing(q)'
    <3>1. SUFFICES ASSUME Pop(q) # <<>> PROVE Pop(q)[Len(Pop(q))].retried
      BY <2>1 DEF Renewing, Handling, Top, Blocks
    <3>2. Len(Pop(q)) \in DOMAIN Pop(q)
      BY <2>2, <3>1
    <3> QED
      BY <2>4, <3>2
  <2>6. Sound(q)'
    BY <1>1, <2>1, <2>3, <2>4, <2>5 DEF Sound
  <2> QED
    BY <1>2, <2>1, <2>3, <2>5, <2>6, AliveQuietly
<1>9. CASE Finish(q)
  <2>1. /\ call'[q].pc \in {"leaving", "done"} /\ call'[q].blocks = call[q].blocks
        /\ call'[q].asking = call[q].asking /\ job'[q] = job[q] /\ stored' = stored
        /\ live' = live /\ call[q].pc = "resolved" /\ ~Handling(q)
    BY <1>1, <1>9 DEF Finish, Goto, Call, server, At
  <2>2. ~Renewing(q) /\ ~Renewing(q)'
    BY <2>1 DEF Renewing, Handling, Blocks
  <2>3. Sound(q)'
    BY <1>1, <2>1, <2>2 DEF Sound
  <2> QED
    BY <1>2, <2>1, <2>2, <2>3, AliveQuietly
<1>10. CASE Renew(q)
  <2>1. /\ Send(q, stored, 0, Push(q)) /\ stored' = stored /\ live' = live
        /\ call[q].pc = "waiting" /\ job[q].pc = "denied"
        /\ \A p \in Calls \ {q} : ~Renewing(p)
    BY <1>10 DEF Renew, Answer, At, server
  <2>2. ~Renewing(q) /\ call[q].asking = TheCall
    BY <1>1, <2>1 DEF Sound
  <2>3. stored \in live
    BY <2>1, <2>2 DEF Alive
  <2>4. [request |-> call[q].asking, retried |-> FALSE] \in Block
    BY <1>1 DEF Block, Call
  <2>5. /\ DOMAIN Push(q) = 1 .. Len(Blocks(q)) + 1 /\ Len(Blocks(q)) \in Nat
        /\ DOMAIN Blocks(q) = 1 .. Len(Blocks(q)) /\ Len(Push(q)) = Len(Blocks(q)) + 1
        /\ \A i \in DOMAIN Blocks(q) : Push(q)[i] = Blocks(q)[i]
        /\ Push(q)[Len(Blocks(q)) + 1] = [request |-> call[q].asking, retried |-> FALSE]
    BY <1>1, <2>4, PushedBlocks DEF Push
  <2>6. \A j \in DOMAIN Push(q) : Push(q)[j].request = TheCall
    BY <1>1, <2>2, <2>5 DEF Sound
  <2>7. /\ call'[q].pc = "waiting" /\ call'[q].asking = stored /\ call'[q].blocks = Push(q)
        /\ job'[q].pc = "received" /\ job'[q].token = stored
    BY <1>1, <2>1, Sent DEF TheCall
  <2>8. Renewing(q)'
    BY <2>5, <2>7 DEF Renewing, Handling, Top, Blocks
  <2>9. Sound(q)'
    BY <1>1, <2>1, <2>3, <2>6, <2>7, <2>8 DEF Sound, TheCall
  <2> QED
    BY <1>1, <1>2, <2>1, <2>8, <2>9, AliveStays
<1>11. CASE NothingStored(q) \/ Refused(q) \/ GiveUp(q)
  <2>1. Refused(q) \/ GiveUp(q)
    BY <1>1, <1>11 DEF NothingStored
  <2>2. ~Handling(q) /\ Fail(q) /\ job' = job /\ stored' = stored /\ live' = live
    BY <2>1 DEF Refused, GiveUp, server
  <2>3. /\ call'[q].pc = "done" /\ call'[q].blocks = call[q].blocks
        /\ call'[q].asking = call[q].asking /\ call[q].pc = "waiting"
    BY <1>1, <2>1, <2>2 DEF Fail, Goto, Call, Refused, GiveUp, Answer, At
  <2>4. ~Renewing(q) /\ ~Renewing(q)'
    BY <2>2, <2>3 DEF Renewing, Handling, Blocks
  <2>5. Sound(q)'
    BY <1>1, <2>2, <2>3, <2>4 DEF Sound
  <2> QED
    BY <1>2, <2>2, <2>4, <2>5, AliveQuietly
<1>12. CASE Clear(q) \/ Leave(q)
  BY <1>1, <1>12 DEF Clear, Leave, At, Sound
<1> QED
  BY <1>3, <1>4, <1>5, <1>6, <1>7, <1>8, <1>9, <1>10, <1>11, <1>12 DEF Step

\* Neither does the server.
LEMMA WorkKeepsAlive ==
    ASSUME TypeOK, Alive, ~spoiled', NEW q \in Calls, Work(q)
    PROVE  Alive'
<1>1. /\ job \in [Calls -> Job] /\ job[q] \in Job /\ call' = call /\ stored' = stored
      /\ Sound(q) /\ Renewing(q)' = Renewing(q)
  BY DEF TypeOK, Work, app, Serve, Refuse, Deny, Check, Kill, Revoke, Issue, RefreshFails, Alive,
         Renewing, Handling, Top, Blocks
<1>2. \A p \in Calls \ {q} : call'[p] = call[p] /\ job'[p] = job[p]
  BY TouchesOne
<1>3. CASE Serve(q) \/ Refuse(q) \/ Deny(q)
  <2>1. call[q].asking = TheCall /\ job[q].pc = "received" /\ live' = live
    BY <1>3 DEF Serve, Refuse, Deny, Asked, server
  <2>2. Renewing(q) => call[q].asking # TheCall
    BY <1>1 DEF Sound
  <2>3. Sound(q)'
    BY <1>1, <2>1, <2>2 DEF Sound
  <2> QED
    BY <1>1, <1>2, <2>1, <2>3, AliveQuietly
<1>4. ASSUME NEW phase, AskedToRefresh(q, phase), phase # "idle"
      PROVE  Renewing(q) /\ call[q].pc = "waiting" /\ call[q].asking # TheCall /\ job[q].pc = phase
  BY <1>1, <1>4 DEF AskedToRefresh, Sound
<1>5. CASE Check(q)
  <2>1. AskedToRefresh(q, "received") /\ live' = live /\ job'[q].token = job[q].token
        /\ job'[q].pc = (IF job[q].token \in live THEN "checked" ELSE "reused")
    BY <1>1, <1>5 DEF Check, server, Does, Job
  <2>2. Sound(q)'
    BY <1>1, <1>4, <2>1 DEF Sound
  <2> QED
    BY <1>1, <1>2, <2>1, <2>2, AliveQuietly
<1>6. CASE Kill(q)
  <2>1. AskedToRefresh(q, "reused")
    BY <1>6 DEF Kill
  <2> QED
    BY <1>1, <1>4, <2>1 DEF Sound
<1>7. CASE Revoke(q)
  <2>1. AskedToRefresh(q, "checked") /\ job'[q].pc = "revoked"
    BY <1>1, <1>7 DEF Revoke, Does, Job
  <2>2. Renewing(q) /\ Sound(q)'
    BY <1>1, <1>4, <2>1 DEF Sound
  <2>3. \A p \in Calls \ {q} : ~Renewing(p)
    BY <2>2 DEF Alive
  <2> QED
    BY <1>1, <1>2, <2>2, <2>3, AliveStays DEF Alive
<1>8. CASE Issue(q)
  <2>1. /\ AskedToRefresh(q, "revoked") /\ job'[q].pc = "ok" /\ job'[q].token \in live'
        /\ live \subseteq live'
    BY <1>1, <1>8 DEF Issue
  <2>2. Sound(q)'
    BY <1>1, <1>4, <2>1 DEF Sound
  <2> QED
    BY <1>1, <1>2, <2>1, <2>2, AliveQuietly
<1>9. CASE RefreshFails(q)
  BY <1>9 DEF RefreshFails
<1> QED
  BY <1>3, <1>5, <1>6, <1>7, <1>8, <1>9 DEF Work

-----------------------------------------------------------------------------
(* The invariant is inductive.                                             *)

\* After the login.
LEMMA InitIsSound == Init => IInv
<1> SUFFICES ASSUME Init PROVE IInv
  OBVIOUS
<1> USE MobileSessionAssumption
<1>1. TypeOK
  <2>1. [pc |-> "new", asking |-> TheCall, pair |-> 0, body |-> 0, blocks |-> <<>>] \in Call
    BY NoBlocks DEF Call, Stored, TheCall
  <2>2. [pc |-> "idle", token |-> 0] \in Job
    BY DEF Job, Stored
  <2>3. call \in [Calls -> Call] /\ job \in [Calls -> Job]
    BY <2>1, <2>2 DEF Init
  <2>4. stored \in Stored /\ issued \in Pairs /\ live \subseteq 1 .. issued /\ fresh \subseteq 1 .. issued
    BY DEF Init, Stored, Pairs
  <2> QED
    BY <2>3, <2>4 DEF Init, TypeOK
<1>2. \A q \in Calls : /\ call[q].pc = "new" /\ call[q].asking = TheCall /\ call[q].blocks = <<>>
                       /\ job[q].pc = "idle" /\ executed[q] = 0
  BY DEF Init
<1>3. \A q \in Calls : Effect(q)
  <2> TAKE q \in Calls
  <2>1. call[q].pc = "new" /\ call[q].blocks = <<>> /\ DOMAIN call[q].blocks = {}
    BY <1>2
  <2> QED
    BY <1>2, <2>1 DEF Effect
<1>4. \A q \in Calls : ~Renewing(q)
  BY <1>2 DEF Renewing, Handling, Blocks
<1>5. \A q \in Calls : Sound(q)
  <2> TAKE q \in Calls
  <2>1. call[q].pc = "new" /\ call[q].blocks = <<>> /\ DOMAIN call[q].blocks = {}
    BY <1>2
  <2> QED
    BY <1>2, <1>4, <2>1 DEF Sound
<1>6. stored # 0 /\ stored \in live
  BY DEF Init
<1> QED
  BY <1>1, <1>3, <1>4, <1>5, <1>6 DEF IInv, Alive

\* After a restart there is nothing left to handle.
LEMMA RestartIsSound ==
    ASSUME IInv, Restart
    PROVE  /\ \A q \in Calls : Effect(q)'
           /\ ~spoiled' => Alive'
<1>1. /\ call \in [Calls -> Call] /\ job' = job /\ executed' = executed /\ stored' = stored
      /\ live' = live /\ executed \in [Calls -> Nat]
      /\ \A q \in Calls : Effect(q)
  BY DEF IInv, TypeOK, Restart, server
<1>2. \A q \in Calls :
         \/ call[q].pc = "new" /\ call'[q] = call[q]
         \/ /\ call'[q].pc = "done" /\ call'[q].blocks = <<>> /\ call'[q].asking = call[q].asking
            /\ call[q].pc # "new"
  BY <1>1 DEF Restart, Call, At
<1>3. ASSUME NEW q \in Calls PROVE Effect(q)'
  <2>1. CASE call'[q] = call[q]
    BY <1>1, <2>1, EffectStays
  <2>2. CASE call'[q].pc = "done" /\ call'[q].blocks = <<>> /\ call'[q].asking = call[q].asking
    <3>1. executed[q] = 1 => ~Asked(q, "received")
      BY <1>1 DEF Effect, Asked
    <3> QED
      BY <1>1, <2>2, <3>1 DEF Effect, Asked
  <2> QED
    BY <1>2, <2>1, <2>2
<1>4. ASSUME ~spoiled' PROVE Alive'
  <2>1. Alive /\ \A q \in Calls : ~Handling(q)
    BY <1>4 DEF Restart, IInv
  <2>2. \A q \in Calls : ~Renewing(q) /\ call[q].blocks = <<>>
    BY <2>1 DEF Renewing, Handling, Blocks
  <2>3. \A q \in Calls : call'[q].blocks = <<>>
    BY <1>2, <2>2
  <2>4. \A q \in Calls : ~Renewing(q)'
    BY <2>3 DEF Renewing, Handling, Blocks
  <2>5. \A q \in Calls : Sound(q)'
    BY <1>1, <1>2, <2>1, <2>2, <2>3, <2>4 DEF Alive, Sound, Effect
  <2> QED
    BY <1>1, <2>1, <2>2, <2>4, <2>5 DEF Alive
<1> QED
  BY <1>3, <1>4

\* After any step.
LEMMA NextIsSound == IInv /\ [Next]_vars => IInv'
<1> SUFFICES ASSUME IInv, [Next]_vars PROVE IInv'
  OBVIOUS
<1>1. TypeOK'
  BY NextIsTyped
<1>2. ASSUME NEW q \in Calls, Step(q) \/ Work(q)
      PROVE  /\ \A p \in Calls : Effect(p)'
             /\ ~spoiled' => Alive'
  <2>1. TypeOK /\ Effect(q) /\ \A p \in Calls : Effect(p)
    BY DEF IInv
  <2>2. Effect(q)'
    BY <1>2, <2>1, StepKeepsEffect, WorkKeepsEffect
  <2>3. \A p \in Calls \ {q} : Effect(p)'
    BY <1>2, <2>1, TouchesOne, EffectStays
  <2>4. ASSUME ~spoiled' PROVE ~spoiled
    <3>1. CASE Step(q)
      BY <2>4, <3>1 DEF Step, Name, Start, Resolve, Save, Retry, Return, Finish, Renew,
                        NothingStored, Refused, GiveUp, Clear, Leave
    <3>2. CASE Work(q)
      BY <2>4, <3>2 DEF Work, Serve, Refuse, Deny, Check, Kill, Revoke, Issue, RefreshFails
    <3> QED
      BY <1>2, <3>1, <3>2
  <2>5. ~spoiled' => Alive'
    BY <1>2, <2>1, <2>4, StepKeepsAlive, WorkKeepsAlive DEF IInv
  <2> QED
    BY <2>2, <2>3, <2>5
<1>3. CASE \E q \in Calls : Step(q) \/ Work(q)
  BY <1>1, <1>2, <1>3 DEF IInv
<1>4. CASE Restart
  BY <1>1, <1>4, RestartIsSound DEF IInv
<1>5. ASSUME UNCHANGED <<stored, call, job, live, executed, spoiled>>
      PROVE  IInv'
  <2>1. \A q \in Calls : (Effect(q)' <=> Effect(q)) /\ (Renewing(q)' <=> Renewing(q))
    BY <1>5 DEF Effect, Renewing, Handling, Top, Blocks, Asked
  <2>2. \A q \in Calls : Sound(q)' <=> Sound(q)
    BY <1>5, <2>1 DEF Sound
  <2> QED
    BY <1>1, <1>5, <2>1, <2>2 DEF IInv, Alive
<1>6. CASE \E k \in fresh : Expire(k)
  BY <1>5, <1>6 DEF Expire, app
<1>7. CASE EndSessions
  <2>1. \A q \in Calls : Effect(q)'
    <3> TAKE q \in Calls
    <3>1. Effect(q) /\ call' = call /\ job' = job /\ executed' = executed
      BY <1>7 DEF EndSessions, app, IInv
    <3> QED
      BY <3>1, EffectStays
  <2> QED
    BY <1>1, <1>7, <2>1 DEF EndSessions, IInv
<1>8. CASE UNCHANGED vars
  BY <1>5, <1>8 DEF vars
<1> QED
  BY <1>3, <1>4, <1>6, <1>7, <1>8 DEF Next

\* At all times.
LEMMA AlwaysSound == Spec => []IInv
  BY InitIsSound, NextIsSound, PTL DEF Spec

-----------------------------------------------------------------------------
\* Every variable keeps its type, for any number of calls.
THEOREM TypeCorrect == Spec => []TypeOK
<1>1. IInv => TypeOK
  BY DEF IInv
<1> QED
  BY <1>1, AlwaysSound, PTL

\* However many calls meet an expired token, and however often, the interceptor
\* (mobile/lib/core/services/api_client.dart:32-57) and the rotation
\* (backend/internal/service/auth.go:355-403) keep a session alive that nothing
\* has spoiled.
THEOREM SessionsSurvive == Spec => []SessionSurvives
<1>1. IInv => SessionSurvives
  BY DEF IInv, Alive, SessionSurvives
<1> QED
  BY <1>1, AlwaysSound, PTL

\* No failure, renewal or restart makes a call take effect twice, at whatever
\* depth the interceptor is handling its own failures (api_client.dart:36, 49).
THEOREM CallsTakeEffectOnce == Spec => []TakesEffectOnce
<1>1. IInv => TakesEffectOnce
  BY DEF IInv, Effect, TakesEffectOnce
<1> QED
  BY <1>1, AlwaysSound, PTL
=============================================================================
