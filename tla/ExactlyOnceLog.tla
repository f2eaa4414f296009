--------------------------- MODULE ExactlyOnceLog ---------------------------
(***************************************************************************)
(* What a client may rely on when it appends to a shared log through the   *)
(* queue, with no mention of processes, journals or crashes: a request is  *)
(* asked for, takes effect at one point between the question and the       *)
(* answer, adds its line at most once, and is answered once, truthfully.   *)
(***************************************************************************)
EXTENDS Naturals, Sequences

CONSTANTS
    Ask,       \* append requests
    LineOf,    \* the line of each
    Within,    \* the lines that contain the text of a line
    Doubtful   \* requests that may be refused although they took effect

VARIABLES
    asked, took, answer, log

vars == <<asked, took, answer, log>>

IsIn(l) == \E i \in 1..Len(log) : log[i] \in Within[l]

Init ==
    /\ asked = {} /\ took = {}
    /\ answer = [r \in Ask |-> "none"]
    /\ log = <<>>

Submit(r) ==
    /\ r \notin asked
    /\ asked' = asked \cup {r}
    /\ UNCHANGED <<took, answer, log>>

TakeEffect(r) ==
    /\ r \in asked /\ answer[r] = "none"
    /\ took' = took \cup {r}
    /\ log' = IF IsIn(LineOf[r]) THEN log ELSE Append(log, LineOf[r])
    /\ UNCHANGED <<asked, answer>>

Confirm(r) ==
    /\ r \in asked /\ answer[r] = "none"
    /\ IsIn(LineOf[r])
    /\ answer' = [answer EXCEPT ![r] = "applied"]
    /\ UNCHANGED <<asked, took, log>>

Refuse(r) ==
    /\ r \in asked /\ answer[r] = "none"
    /\ r \notin took \/ r \in Doubtful
    /\ answer' = [answer EXCEPT ![r] = "rejected"]
    /\ UNCHANGED <<asked, took, log>>

Next == \E r \in Ask : Submit(r) \/ TakeEffect(r) \/ Confirm(r) \/ Refuse(r)

Spec == Init /\ [][Next]_vars

=============================================================================
