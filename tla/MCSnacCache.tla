---------------------------- MODULE MCSnacCache ----------------------------
EXTENDS SnacCache

\* aim_session_kill drops everything; aim_send_im_ext drops what is older than
\* a minute, here what was sent before the last tick of the clock.
MCAges == {-1, 0}
=============================================================================
