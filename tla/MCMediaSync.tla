---------------------------- MODULE MCMediaSync ----------------------------
(***************************************************************************)
(* A small instance of MediaSync: two images that name media of the post's *)
(* center, one of them also of another, and one image from elsewhere.      *)
(***************************************************************************)
EXTENDS MediaSync

CONSTANTS m1, m2, m3, k1, k2, home, away

MCTexts == {{}, {[base |-> "uploads", key |-> k1]}, {[base |-> "media", key |-> k2]},
            {[base |-> "uploads", key |-> k1], [base |-> "elsewhere", key |-> k2]}}

MCLibrary == {[id |-> m1, key |-> k1, center |-> home], [id |-> m2, key |-> k2, center |-> home],
              [id |-> m3, key |-> k1, center |-> away]}
=============================================================================
