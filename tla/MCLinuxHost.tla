---------------------------- MODULE MCLinuxHost ----------------------------
(* Instances of LinuxHost: a session with an id and one without,           *)
(* or two sessions with an id.                                            *)
EXTENDS LinuxHost

CONSTANTS s1, s2
=============================================================================
