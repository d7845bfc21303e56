----------------------------- MODULE Enrollment -----------------------------
(***************************************************************************)
(* What pairing promises, whatever its run, its crashes and its retries:   *)
(* service accounts are made in Datum, at most one of them is held on      *)
(* record, and the key that appears on disk is the key of the account on   *)
(* record.  A key on disk is never replaced by another one, only forgotten *)
(* when the owner pairs again.                                             *)
(***************************************************************************)
CONSTANTS Accounts, None

VARIABLES
    made,   \* the accounts that were ever created in Datum
    held,   \* the account on record, or None
    key     \* the account whose key is on disk, or None

evars == <<made, held, key>>

EInit == made = {} /\ held = None /\ key = None

Make(a) == a \notin made /\ made' = made \cup {a} /\ UNCHANGED <<held, key>>

Hold(a) == a \in made /\ key = None /\ held' = a /\ UNCHANGED <<made, key>>

Publish == held # None /\ key = None /\ key' = held /\ UNCHANGED <<made, held>>

Settle == key # None /\ held = key /\ held' = None /\ UNCHANGED <<made, key>>

Forget == key' = None /\ held' \in {held, None} /\ UNCHANGED made

ENext == (\E a \in Accounts : Make(a) \/ Hold(a)) \/ Publish \/ Settle \/ Forget

ESpec == EInit /\ [][ENext]_evars
=============================================================================
