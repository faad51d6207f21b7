----------------------------- MODULE MCGateway -----------------------------
(* Instances of Gateway for TLC.  A plan says what comes from outside.  *)
EXTENDS Gateway

TwoTasks == {"a", "b"}
Roster == {"project-manager", "coder"}
TwoWindows == {"window 1", "window 2"}
WindowsAndPhone == TwoWindows \union {"phone"}
TwoLoops == {1, 2}

Nothing == [creates |-> 0, faults |-> 0, crashes |-> 0, exits |-> 0, arms |-> 0, disarms |-> 0,
            resets |-> 0, switches |-> 0, messages |-> 0, stops |-> 0,
            kinds |-> {}, desks |-> {"window 1"}, slugs |-> {"a"}]
\* Two windows on one name, and on two names.
OneName == [Nothing EXCEPT !.creates = 2, !.faults = 1, !.crashes = 1, !.exits = 1, !.desks = TwoWindows]
TwoNames == [Nothing EXCEPT !.creates = 2, !.faults = 1, !.desks = TwoWindows, !.slugs = TwoTasks]
\* The switch goes up, down and up again while the phone starts and creates.
Rearming == [Nothing EXCEPT !.arms = 2, !.disarms = 1, !.faults = 1, !.crashes = 1, !.desks = {},
                            !.messages = 2, !.kinds = {"plain", "start", "create"}]
\* The phone closes what the desktop creates and may close too.
PhoneCloses == [Nothing EXCEPT !.creates = 1, !.faults = 1, !.arms = 1, !.switches = 1,
                               !.messages = 2, !.kinds = {"close", "confirm"}]
PhonePlain == [Nothing EXCEPT !.creates = 1, !.arms = 1, !.disarms = 1, !.switches = 1,
                              !.messages = 1, !.kinds = {"plain"}]
\* Replies are pushed over a reset and a crash.
Pushing == [Nothing EXCEPT !.creates = 1, !.arms = 2, !.resets = 1, !.crashes = 1, !.switches = 1, !.stops = 2]
AllPlans == {OneName, TwoNames, Rearming, PhoneCloses, PhonePlain, Pushing}
Resetting == {[Nothing EXCEPT !.arms = 1, !.resets = 1]}
=============================================================================
