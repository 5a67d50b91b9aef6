-------------------------- MODULE MCDeviceManager --------------------------
(***************************************************************************)
(* The managers of two processes, and beside them what an open device      *)
(* does: the value of a shared pin, the bytes of a character device, and   *)
(* the moves of objects that own a descriptor.  The four share no          *)
(* variable; each behaviour shows one while the others rest.               *)
(***************************************************************************)
EXTENDS DeviceManager, MovableHandle

CONSTANTS
  PinUser, Direction,                     \* see PinValue
  Writer,                                 \* the processes of FileTransfer
  Size, MaxWrites, MaxInput, MaxRead      \* see FileTransfer

\* Two outputs and an input on one pin.
Directions == [p \in PinUser |-> IF p = "reader" THEN "in" ELSE "out"]

VARIABLES
  shown,       \* "manager", "handle", "pin" or "file"
  pinExists, direction, value, opened, exporter, pinCall, answer, shared, refused, \* PinValue
  line, input, given, fileCall, results, received, broken    \* see FileTransfer

pinValueVars == <<pinExists, direction, value, opened, exporter, pinCall, answer, shared, refused>>
transferVars == <<line, input, given, fileCall, results, received, broken>>

Pin == INSTANCE PinValue WITH Process <- PinUser, exists <- pinExists, call <- pinCall

Transfer == INSTANCE FileTransfer WITH Process <- Writer, call <- fileCall

\* What rests has one initial state.
MCInit ==
  /\ Init /\ HandleInit /\ Pin!Init /\ Transfer!Init
  /\ shown \in {"manager", "handle", "pin", "file"}
  /\ shown # "manager" => ~exported
  /\ shown # "handle" => exists = {}
  /\ shown # "pin" => ~pinExists /\ direction = "in" /\ value = "0"

MCNext ==
  \/ shown = "manager" /\ Next /\ UNCHANGED <<handleVars, pinValueVars, transferVars, shown>>
  \/ shown = "handle" /\ HandleNext /\ UNCHANGED <<vars, pinValueVars, transferVars, shown>>
  \/ shown = "pin" /\ Pin!Next /\ UNCHANGED <<vars, handleVars, transferVars, shown>>
  \/ shown = "file" /\ Transfer!Next /\ UNCHANGED <<vars, handleVars, pinValueVars, shown>>

MCSpec ==
  MCInit /\ [][MCNext]_<<vars, handleVars, pinValueVars, transferVars, shown>>

\* A write to a pin that nobody else has used meanwhile takes effect, unless
\* the pin's direction was refused.
LoneWritesTakeEffect == Pin!LoneWritesTakeEffect

\* Buffers are written and input is read byte by byte, once and in order.
BytesTransferred == Transfer!BytesTransferred
=============================================================================
