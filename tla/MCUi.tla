-------------------------------- MODULE MCUi --------------------------------
(* Machines for the runs of UiNavigation. *)
EXTENDS UiNavigation

Board(mode, keyboard, target) ==
    [mode |-> mode, dev_mode |-> (mode = "developer"), keyboard |-> keyboard,
     fastboot |-> TRUE, external |-> TRUE, forced |-> FALSE, requested |-> FALSE,
     internal |-> TRUE, altfw |-> TRUE, debuginfo |-> TRUE, target |-> target]

MCBoards ==
    {Board("recovery", TRUE, "internal"),
     [Board("recovery", FALSE, "internal") EXCEPT !.fastboot = FALSE],
     [Board("recovery", FALSE, "internal") EXCEPT !.dev_mode = TRUE, !.fastboot = FALSE,
                                                    !.debuginfo = FALSE],
     [Board("developer", TRUE, "internal") EXCEPT !.requested = TRUE, !.forced = TRUE],
     [Board("developer", TRUE, "external") EXCEPT !.internal = FALSE],
     [Board("developer", TRUE, "altfw") EXCEPT !.altfw = FALSE, !.external = FALSE,
                                               !.fastboot = FALSE]}
=============================================================================
