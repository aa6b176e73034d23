--------------------------- MODULE ClosableArchive ---------------------------
(***************************************************************************)
(* What InArchive promises to clients that call it from several threads,   *)
(* and from within its own callbacks, as long as they keep close apart     *)
(* from the calls that still need the archive: each call takes effect in   *)
(* one instant between its beginning and its end.  While the archive is    *)
(* open a call answers or fails; once it is closed every call is refused,  *)
(* but close, which does nothing.  After a disorder of the clients nothing *)
(* is promised.                                                            *)
(***************************************************************************)
CONSTANT Calls

VARIABLES open, kind, answer, disorder

vars == <<open, kind, answer, disorder>>

Init ==
  /\ open = TRUE /\ disorder = FALSE
  /\ kind = [c \in Calls |-> "none"] /\ answer = [c \in Calls |-> "none"]

Begin(c) ==
  /\ kind[c] = "none"
  /\ \E k \in {"get", "getUnchecked", "getStream", "extract", "close"} :
       kind' = [kind EXCEPT ![c] = k]
  /\ UNCHANGED <<open, answer>>

Answer(c) ==
  /\ kind[c] \notin {"none", "close"} /\ answer[c] = "none"
  /\ \E a \in IF open THEN {"ok", "failed"} ELSE {"IllegalState"} :
       answer' = [answer EXCEPT ![c] = a]
  /\ UNCHANGED <<open, kind>>

Close(c) ==
  /\ kind[c] = "close" /\ answer[c] = "none"
  /\ open' = FALSE /\ answer' = [answer EXCEPT ![c] = "ok"]
  /\ UNCHANGED kind

\* The sink fails to close, whatever the extraction has answered.
SinkFails(c) ==
  /\ kind[c] = "extract" /\ answer[c] # "none"
  /\ answer' = [answer EXCEPT ![c] = "failed"]
  /\ UNCHANGED <<open, kind>>

Return(c) ==
  /\ answer[c] # "none"
  /\ kind' = [kind EXCEPT ![c] = "none"] /\ answer' = [answer EXCEPT ![c] = "none"]
  /\ UNCHANGED open

Next ==
  \/ disorder'
  \/ /\ UNCHANGED disorder
     /\ \E c \in Calls : Begin(c) \/ Answer(c) \/ Close(c) \/ SinkFails(c) \/ Return(c)

Spec == Init /\ [][Next]_vars
=============================================================================
