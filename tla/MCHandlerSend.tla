--------------------------- MODULE MCHandlerSend ---------------------------
(* The main thread and the broker client's receiving thread send.          *)
EXTENDS HandlerSend
=============================================================================
