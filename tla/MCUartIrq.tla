------------------------------- MODULE MCUartIrq -------------------------------
(***************************************************************************)
(* UartIrq with queues of two or three bytes' capacity, and enough traffic *)
(* to wrap both indices of each queue.                                     *)
(***************************************************************************)
EXTENDS UartIrq
=============================================================================
