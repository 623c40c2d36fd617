----------------------------- MODULE MCMembership -----------------------------
(* A channel of the account, two to join, an archived one.                  *)
EXTENDS Membership

MCChannels == {"own", "new", "other", "old"}
MCArchived == {"old"}
MCReadable == {"old"}
MCStanding == {"own", "team"}
=============================================================================
