---------------------------- MODULE FormatChoice ----------------------------
(***************************************************************************)
(* What format detection promises to SevenZip::OpenArchive, without saying *)
(* how it goes about it: every known format is tried at most once, the     *)
(* search ends with the first format that accepts the stream or asks for a *)
(* password it does not get, and "unknown format" is the answer only when  *)
(* there is no format left to try.                                         *)
(***************************************************************************)
CONSTANTS Fmt, NoFormat

VARIABLES untried, answer, chosen

vars == <<untried, answer, chosen>>

Init == untried = Fmt /\ answer = "pending" /\ chosen = NoFormat

\* The format does not take the stream: the search goes on.
Reject(f) ==
  /\ answer = "pending" /\ f \in untried
  /\ untried' = untried \ {f}
  /\ UNCHANGED <<answer, chosen>>

\* The format takes the stream.
Accept(f) ==
  /\ answer = "pending" /\ f \in untried
  /\ untried' = untried \ {f}
  /\ answer' = "opened" /\ chosen' = f

\* The format is confirmed by its question for a password, and nothing is open.
AskInVain(f) ==
  /\ answer = "pending" /\ f \in untried
  /\ untried' = untried \ {f}
  /\ answer' = "password" /\ UNCHANGED chosen

GiveUp ==
  /\ answer = "pending" /\ untried = {}
  /\ answer' = "unknown" /\ UNCHANGED <<untried, chosen>>

Next == GiveUp \/ \E f \in Fmt : Reject(f) \/ Accept(f) \/ AskInVain(f)

Spec == Init /\ [][Next]_vars
=============================================================================
