-------------------------- MODULE MCKioskCatalogue --------------------------
(***************************************************************************)
(* Instances of KioskCatalogue for TLC.                                    *)
(***************************************************************************)
EXTENDS KioskCatalogue, TLC

CONSTANTS asg1, asg2, booth1, booth2, camp1, camp2, frame1, frame2, vch1

TwoAssignments == {asg1, asg2}
TwoBooths == {booth1, booth2}
TwoCampaigns == {camp1, camp2}
TwoFrames == {frame1, frame2}
OneVoucher == {vch1}

\* A window that ends as the next begins, one over both, and an open one.
MCWindows == {[from |-> 1, until |-> 1], [from |-> 2, until |-> 2],
              [from |-> 1, until |-> 2], [from |-> Null, until |-> 2]}

\* Two assignments to two booths, of one campaign or of two.  Only frame1 is
\* linked, and frame2 is public.
Assigned(from1, c) ==
  [assignments |-> (asg1 :> [booth |-> booth1, window |-> [from |-> from1, until |-> 2],
                             active |-> TRUE]) @@
                   (asg2 :> [booth |-> booth2, window |-> [from |-> 2, until |-> 2],
                             active |-> TRUE]),
   booths |-> (booth1 :> [campaign |-> camp1, live |-> TRUE]) @@
              (booth2 :> [campaign |-> c, live |-> TRUE]),
   campaigns |-> (camp1 :> [frames |-> {frame1}, live |-> TRUE]) @@
                 (camp2 :> [frames |-> {}, live |-> TRUE]),
   frames |-> (frame1 :> [public |-> TRUE, live |-> TRUE]) @@
              (frame2 :> [public |-> TRUE, live |-> TRUE]),
   vouchers |-> (vch1 :> [campaign |-> camp1, available |-> TRUE, live |-> TRUE])]

MCCatalogues == {Assigned(1, camp2), Assigned(Null, camp1)}
=============================================================================
