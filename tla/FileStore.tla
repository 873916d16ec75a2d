------------------------------ MODULE FileStore ------------------------------
(***************************************************************************)
(* What the Files tab promises, without inodes, part files or chunks: a    *)
(* write replaces its name's content whole and at once, with its own, or   *)
(* not at all, and never after it has failed; only two writes of one name  *)
(* at a time may spoil it.                                                 *)
(***************************************************************************)
CONSTANTS Threads, Names, Ids, None

VARIABLES
  content,  \* the write each name holds the file of; None without one, or if torn
  torn,     \* names that two writes at once have been to
  pending   \* the write each thread is at

vars == <<content, torn, pending>>

NoWrite == [name |-> None, id |-> 0]

Init ==
  /\ content \in [Names -> Ids \cup {None}] /\ torn = {}
  /\ pending = [t \in Threads |-> NoWrite]

\* No name holds it and no thread is at it.
Fresh(id) == (\A n \in Names : content[n] # id) /\ (\A t \in Threads : pending[t].id # id)

Begin(t) ==
  /\ pending[t] = NoWrite
  /\ \E n \in Names, id \in Ids :
       Fresh(id) /\ pending' = [pending EXCEPT ![t] = [name |-> n, id |-> id]]
  /\ UNCHANGED <<content, torn>>

End(t) == pending[t] # NoWrite /\ pending' = [pending EXCEPT ![t] = NoWrite]

Commit(t) ==
  /\ End(t) /\ UNCHANGED torn
  /\ content' = IF pending[t].name \in torn THEN content
                ELSE [content EXCEPT ![pending[t].name] = pending[t].id]

Fail(t) == End(t) /\ UNCHANGED <<content, torn>>

Tear(n) ==
  /\ \E s, t \in Threads : s # t /\ pending[s].name = n /\ pending[t].name = n
  /\ torn' = torn \cup {n} /\ content' = [content EXCEPT ![n] = None]
  /\ UNCHANGED pending

Delete(n) == content' = [content EXCEPT ![n] = None] /\ UNCHANGED <<torn, pending>>

\* Writes under way are lost, and what names hold is not.
Restart == pending' = [t \in Threads |-> NoWrite] /\ UNCHANGED <<content, torn>>

Next ==
  \/ \E t \in Threads : Begin(t) \/ Commit(t) \/ Fail(t)
  \/ \E n \in Names : Tear(n) \/ Delete(n)
  \/ Restart

Spec == Init /\ [][Next]_vars
=============================================================================
