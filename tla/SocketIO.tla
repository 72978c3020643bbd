----------------------------- MODULE SocketIO ------------------------------
(***************************************************************************)
(* SocketIO of libacetools: what the handlers are told of a system call.   *)
(* A call returns a number of bytes, or -1 and an errno; from_size makes   *)
(* an IOResultCode of it.                                                  *)
(***************************************************************************)
EXTENDS Integers

Errnos == {"none", "EAGAIN", "EWOULDBLOCK", "ETIME", "ECONNRESET", "ENOTCONN", "EBADF", "other"}
Codes == {"Success", "Timeout", "ConnectionClosed", "Error"}

\* What recv and send return.
Returned(n) == [size |-> n, errno |-> "none"]
Failed(errno) == [size |-> -1, errno |-> errno]

\* Faulty variant: a call that timed out is an error.
FromSize_NoTimeout(r) ==
    CASE r.size > 0 -> "Success"
      [] r.size = 0 \/ r.errno \in {"ECONNRESET", "ENOTCONN", "EBADF"} -> "ConnectionClosed"
      [] OTHER -> "Error"

FromSize(r) ==
    CASE r.size > 0 -> "Success"
      [] r.size = 0 -> "ConnectionClosed"
      [] r.errno \in {"EAGAIN", "EWOULDBLOCK", "ETIME"} -> "Timeout"
      [] r.errno \in {"ECONNRESET", "ENOTCONN", "EBADF"} -> "ConnectionClosed"
      [] OTHER -> "Error"
=============================================================================
