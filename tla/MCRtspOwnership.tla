---------------------------- MODULE MCRtspOwnership ----------------------------
(***************************************************************************)
(* An instance of the ownership protocol for TLC.                          *)
(***************************************************************************)
EXTENDS RtspOwnership

\* Once a thread has been mistaken for the player nothing more is said of the
\* run, so that its states need not be followed.
UpToMistake == ~mistaken
===============================================================================
