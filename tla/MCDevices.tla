------------------------------ MODULE MCDevices ------------------------------
(* The instances of Devices that TLC checks. *)
EXTENDS Devices, TLC

CONSTANTS s1, s2, p1, a1, a2, k1, k2
DeviceSymmetry == Permutations(Students) \union Permutations(Apps)
(* No handler reads linked, and some announce is accepted in every state of anonymous. *)
DevicesView == <<mix, device, login, token, moodleKey, silent, wants, courses, call, swept, ousted>>
OnePhone == [t \in Tokens |-> p1]
=============================================================================
