---------------------------- MODULE MCSerialPort ----------------------------
(* Three messages, one longer than the driver's queue, and a boat that sends *)
(* zeros and package marks among its bytes.                                  *)
EXTENDS SerialPort

Lengths == <<2, 3, 1>>
Bytes == {0, 7, 46}
=============================================================================
