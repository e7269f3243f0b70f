---------------------------- MODULE MCDiscovery ----------------------------
(* Three hosts on two slots, so that one waits; two devices of which one   *)
(* is looked for; two interfaces; and announcements enough to overrun the  *)
(* channel.                                                                *)
EXTENDS Discovery
=============================================================================
