--------------------------- MODULE MCClientSetup ----------------------------
(***************************************************************************)
(* Two client variables and two devices; every place a socket may be, every*)
(* combination of credentials; urls with a port of their own, one that     *)
(* wraps to 0, and malformed ones.                                         *)
(***************************************************************************)
EXTENDS ClientSetup, TLC

Env(socket, xdg, run_user, home, state_dir) ==
    [socket |-> socket, xdg |-> xdg, run_user |-> run_user, home |-> home,
     state_dir |-> state_dir, jwt_secret |-> FALSE, device_id |-> NoDevice,
     device_secret |-> FALSE]
Credentials ==
    {[Env("good", FALSE, FALSE, FALSE, FALSE) EXCEPT !.jwt_secret = s, !.device_id = id,
                                                     !.device_secret = ds] :
        s \in BOOLEAN, id \in Devices \cup {NoDevice}, ds \in BOOLEAN}
MCEnvironments == Credentials \cup
    {Env("long", TRUE, FALSE, FALSE, FALSE), Env("unset", TRUE, FALSE, FALSE, FALSE),
     Env("unset", FALSE, TRUE, FALSE, FALSE), Env("unset", FALSE, FALSE, TRUE, TRUE),
     Env("unset", FALSE, FALSE, TRUE, FALSE), Env("unset", FALSE, FALSE, FALSE, TRUE)}

Url(scheme, host, number, port) ==
    [scheme |-> scheme, host |-> host, number |-> number, port |-> port]
MCUrls == {Url("ws", TRUE, TRUE, 1), Url("wss", TRUE, TRUE, 4), Url("http", TRUE, TRUE, 1),
           Url("ws", FALSE, TRUE, 1), Url("ws", TRUE, FALSE, 0)}

Symmetry == Permutations(Objects) \cup Permutations(Devices)
=============================================================================
