--------------------------- MODULE MCAuthSessions ---------------------------
(* Small instances of AuthSessions for TLC. *)
EXTENDS AuthSessions, TLC

(* Both tokens, each in its field; and the refresh token alone, in the      *)
(* field for the access token.  The access token alone does no more than    *)
(* the second: it stops parsing earlier.                                    *)
MCLogouts == {WholePair, [EmptyBody EXCEPT !["access"] = "refresh"]}

Symmetry == Permutations(Calls) \cup Permutations(Sids)
==============================================================================
