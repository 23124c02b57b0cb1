----------------------------- MODULE MCFirstBoot -----------------------------
(* Four profiles, two usernames for the wizard (so that an account abandoned *)
(* by a power cut and the one chosen at the next boot differ), a seed that   *)
(* locks root and one that does not, and an invalid one.                     *)
EXTENDS FirstBoot

CONSTANTS ann, bob

ProfilesDef == {"minimal", "desktop", "development", "appliance"}
UserNameDef == {ann, bob}
SeedIdsDef == {[user |-> bob, lockRoot |-> TRUE, recovery |-> FALSE],
               [user |-> bob, lockRoot |-> FALSE, recovery |-> TRUE]}
==============================================================================
