---------------------------- MODULE MCCommunity -----------------------------
(* A small instance of Community for TLC. *)
EXTENDS Community

CONSTANTS ana, bia, rui, gil, paulo, pia, eva, root, here, there,
          bread, pipes, mon, tue

\* Ana and Bia are residents, Rui and Gil admins, Paulo and Pia providers, Pia
\* without a profile yet; Eva, a provider, and Root, an admin, are of another
\* community.
MCRole == [u \in Users |-> CASE u \in {ana, bia} -> "morador"
                             [] u \in {rui, gil, root} -> "admin" [] OTHER -> "prestador"]
MCHome == [u \in Users |-> IF u \in {eva, root} THEN there ELSE here]
MCOldTalk == <<ana, bia, ana>>

\* The calls of these kinds that these users make, on any of these rows or users.
Make(kinds, users, on, args) == [kind : kinds, by : users, on : on, arg : args]
Plain(kinds, users) == Make(kinds, users, {None}, {None})
On(kinds, users, on) == Make(kinds, users, on, {None})

Saving(users, bio, slugs) == Make({"save"}, users, {None}, [bio : bio, slugs : slugs])
Planning(users, slots) == Make({"saveAgenda"}, users, {None}, slots)

(* Calls that meet on the same rows, three of each of these sets.          *)

Published ==
    Plain({"publish"}, {bia}) \cup Make({"feed"}, {bia}, {None}, {"open"})
      \cup Make({"setStatus"}, {ana, bia}, {0, 1}, {"closed"})

Responses == On({"respond"}, {paulo, eva}, {0}) \cup On({"responses"}, {ana, rui}, {0})

Told ==
    On({"respond"}, {paulo}, {0, 1}) \cup Plain({"publish"}, {bia})
      \cup Plain({"notices", "unread", "readAll"}, {ana})

Asked ==
    On({"ask"}, {bia, paulo}, {paulo}) \cup Plain({"readAll"}, {ana, paulo})

Answered ==
    On({"ask"}, {bia}, {paulo}) \cup On({"answer"}, {ana}, {0, 1})
      \cup On({"questions"}, {ana}, {paulo})

Posted ==
    Plain({"post", "wall"}, {bia}) \cup Plain({"pending"}, {rui})
      \cup Make({"review"}, {rui}, {1}, {"approved"})

Reviewed ==
    Make({"review"}, {rui, gil}, {0}, {"approved", "rejected"}) \cup Plain({"wall"}, {bia})

Saved == Saving({paulo}, {TRUE}, {None, <<pipes>>}) \cup Saving({paulo}, {FALSE}, {<<bread, pipes>>})

Planned == Planning({paulo}, {<<tue>>, <<mon>>})

Crossed == Planning({pia}, {<<mon, tue>>, <<tue, mon>>})

Paged ==
    Planning({paulo}, {<<tue>>}) \cup Saving({paulo}, {TRUE}, {<<pipes>>})
      \cup On({"visit"}, {bia}, {paulo})

Searched ==
    Make({"search"}, {ana}, {None}, {pipes}) \cup Plain({"featured"}, {ana})
      \cup Saving({pia}, {TRUE}, {<<pipes>>}) \cup Planning({paulo}, {<<>>})

Favored ==
    On({"favorite", "unfavorite"}, {ana, bia}, {paulo}) \cup Plain({"favorites"}, {ana})

Ranked == On({"chat", "visit"}, {ana}, {paulo}) \cup Plain({"dashboard"}, {paulo})

Gone ==
    Plain({"leave", "comeBack"}, {paulo}) \cup On({"remove"}, {rui}, {paulo})
      \cup Plain({"search", "featured"}, {ana}) \cup On({"visit"}, {ana}, {paulo})

Seen ==
    Plain({"leave", "comeBack"}, {paulo}) \cup On({"favorite"}, {ana}, {paulo})
      \cup Plain({"favorites"}, {ana}) \cup Plain({"stats"}, {rui})
      \cup Make({"users"}, {rui}, {None}, {"live", "deleted"})

Forgotten ==
    Plain({"forgot"}, {ana}) \cup On({"reset"}, {ana}, {0, 1}) \cup On({"enter"}, {ana}, {0, 1, 2})

Opened ==
    On({"chat"}, {bia}, {paulo}) \cup On({"chat"}, {paulo}, {bia}) \cup Plain({"inbox"}, {bia})

Talked ==
    Make({"history"}, {bia}, {0}, {0}) \cup On({"say"}, {ana}, {0})
      \cup On({"read"}, {bia}, {0}) \cup Plain({"inbox"}, {bia})

Chatted == Make({"history"}, {bia}, {0}, {0, 1}) \cup On({"say"}, {ana}, {0})

(* Calls that are refused, or that change what others only read.           *)

Odd ==
    Plain({"publish", "featured", "post", "leave"}, {paulo}) \cup Plain({"leave"}, {rui})
      \cup Plain({"publish"}, {bia}) \cup Make({"setStatus"}, {ana}, {0}, {"closed", "lost"})
      \cup Make({"feed"}, {bia}, {None}, {"all"}) \cup Make({"setStatus"}, {eva}, {0}, {"closed"})
      \cup On({"request"}, {eva, ana}, {0}) \cup On({"respond"}, {ana, eva}, {0})
      \cup On({"responses"}, {paulo, eva}, {0}) \cup On({"ask"}, {paulo, eva}, {paulo})
      \cup On({"ask"}, {bia}, {ana}) \cup On({"answer"}, {eva}, {0}) \cup On({"questions"}, {eva}, {eva})
      \cup Make({"review"}, {root}, {0}, {"approved"})
      \cup Saving({paulo}, {TRUE}, {<<pipes, pipes>>, <<mon>>}) \cup Saving({ana}, {TRUE}, {<<pipes>>})
      \cup Planning({paulo}, {<<mon, mon>>}) \cup Planning({ana}, {<<tue>>})
      \cup On({"visit"}, {eva, paulo}, {paulo}) \cup Plain({"myPage", "dashboard", "summary"}, {paulo, ana})
      \cup On({"favorite"}, {paulo, eva}, {paulo}) \cup Plain({"categories", "services", "stats"}, {rui})
      \cup Make({"search"}, {ana}, {None}, {None}) \cup On({"remove"}, {rui}, {rui, gil, paulo})
      \cup On({"remove"}, {root}, {paulo}) \cup Plain({"comeBack"}, {paulo})
      \cup Make({"status"}, {rui, root}, {paulo}, {"suspended", "lost"})
      \cup On({"chat"}, {bia}, {bia, eva, None, ana}) \cup On({"read"}, {bia, paulo}, {0, 1})
      \cup Make({"history"}, {paulo, ana}, {0, 1}, {0}) \cup Make({"history"}, {ana}, {0}, {0 - 1}) \cup On({"say"}, {paulo}, {0})

Returned == Plain({"leave", "comeBack"}, {paulo})

MCScenes ==
    {[calls |-> c, upTo |-> 3, faults |-> FALSE] :
        c \in {Published, Told, Paged, Ranked, Searched, Gone, Seen, Opened}}
      \cup {[calls |-> c, upTo |-> 3, faults |-> TRUE] :
              c \in {Responses, Asked, Answered, Posted, Reviewed, Saved, Planned, Crossed,
                    Favored, Forgotten, Opened, Talked}}
      \cup {[calls |-> Odd, upTo |-> 2, faults |-> FALSE], [calls |-> Odd, upTo |-> 1, faults |-> TRUE],
            [calls |-> Returned, upTo |-> 2, faults |-> TRUE],
            [calls |-> Chatted, upTo |-> 4, faults |-> FALSE]}
=============================================================================
