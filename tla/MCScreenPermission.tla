------------------------- MODULE MCScreenPermission -------------------------
\* ScreenPermission for model checking.
EXTENDS ScreenPermission, TLC
=============================================================================
