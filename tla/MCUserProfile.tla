----------------------------- MODULE MCUserProfile -----------------------------
(***************************************************************************)
(* Small instances of UserProfile: two chunk files and the user bigram,    *)
(* saved in that order.                                                    *)
(***************************************************************************)
EXTENDS UserProfile

CONSTANTS library, user, bigram   \* the files

MCOrder == <<library, user, bigram>>

================================================================================
