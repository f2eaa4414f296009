----------------------------- MODULE JournalMap -----------------------------
(***************************************************************************)
(* What the write-ahead journal promises the applier: a map from requests  *)
(* to the status replay() reports.  A PENDING entry counts only while      *)
(* nothing is known of the request; a terminal entry always counts.  A     *)
(* torn append is glued to the next entry, which is lost; an entry that    *)
(* lacks only its newline counts until then.                               *)
(***************************************************************************)
CONSTANT Req
VARIABLES
    journal,  \* what replaying journal.log yields for each request
    settled,  \* what its lines yield that end in a newline
    torn      \* journal.log ends in a line without a newline

Replayed == {"NONE", "PENDING_INDOUBT", "APPLIED", "REJECTED"}
Statuses == {"PENDING", "APPLIED", "REJECTED"}

Collapse(old, status) ==
    IF status = "PENDING"
    THEN IF old = "NONE" THEN "PENDING_INDOUBT" ELSE old
    ELSE status

JournalInit ==
    /\ journal = [r \in Req |-> "NONE"]
    /\ settled = journal
    /\ torn = FALSE

Entered(r, status) == [settled EXCEPT ![r] = Collapse(@, status)]

JournalAppend(r, status) ==
    /\ torn' = FALSE
    /\ settled' = IF torn THEN settled ELSE Entered(r, status)
    /\ journal' = settled'

\* The write stops inside the line, or before its newline.
JournalTear(r, status) ==
    /\ torn' = TRUE
    /\ settled' = settled
    /\ \/ journal' = settled
       \/ ~torn /\ journal' = Entered(r, status)

JournalSpec ==
    /\ JournalInit
    /\ [][\E r \in Req, status \in Statuses :
            JournalAppend(r, status) \/ JournalTear(r, status)]_<<journal, settled, torn>>

=============================================================================
