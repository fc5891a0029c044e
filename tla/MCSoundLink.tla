----------------------------- MODULE MCSoundLink -----------------------------
EXTENDS SoundLink

(* The game's setting, each delay of the replay diagnostics, and both.     *)
SmallLags == [nmi : {0, 2}, ack : {0, 2}]

=============================================================================
