---------------------------- MODULE MCAudioPath -----------------------------
(* AudioPath with packets of three frames, a queue that runs full and a    *)
(* heap that leaks can exhaust.                                            *)
EXTENDS AudioPath
=============================================================================
