---------------------------- MODULE ManifestReports ----------------------------
(***************************************************************************)
(* What Central may conclude from the reports on manifests.  The node has  *)
(* one record on disk: the fingerprint it has applied, and the one it has  *)
(* noted as acknowledged.  Central is only told what that record names as  *)
(* applied at the time; the network may keep a report and deliver it       *)
(* later, several times or never.  And the node notes nothing that Central *)
(* was not told.                                                           *)
(***************************************************************************)
CONSTANTS Values, Nothing

VARIABLES
    applied, noted,     \* the record on disk
    underway,           \* reports that the network has kept
    told,               \* every fingerprint that has reached Central
    view                \* the last of them

reportVars == <<applied, noted, underway, told, view>>

Init == /\ applied = Nothing /\ noted = Nothing
        /\ underway = {} /\ told = {} /\ view = Nothing

Note(f, n) == /\ n \in told \cup {Nothing}
              /\ applied' = f /\ noted' = n
              /\ UNCHANGED <<underway, told, view>>

Hears(f) == view' = f /\ told' = told \cup {f}

Report == /\ Hears(applied)
          /\ UNCHANGED <<applied, noted, underway>>

Keep == /\ underway' = underway \cup {applied}
        /\ UNCHANGED <<applied, noted, told, view>>

Deliver(f) == /\ f \in underway
              /\ underway' \in {underway, underway \ {f}}
              /\ Hears(f)
              /\ UNCHANGED <<applied, noted>>

Lose(f) == /\ underway' = underway \ {f}
           /\ UNCHANGED <<applied, noted, told, view>>

Next == \/ \E f, n \in Values : Note(f, n)
        \/ Report \/ Keep
        \/ \E f \in underway : Deliver(f) \/ Lose(f)

Spec == Init /\ [][Next]_reportVars

=============================================================================
