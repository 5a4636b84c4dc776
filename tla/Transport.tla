------------------------------- MODULE Transport -------------------------------
(***************************************************************************)
(* Messages in chunks (transport/utils.py): send_bytes_in_chunks cuts a    *)
(* message into pieces, receive_bytes_in_chunks puts them together again.  *)
(* A piece is <<message, its number, how many there are>>.                 *)
(***************************************************************************)
EXTENDS Naturals, Sequences

\* A message of one chunk has only an END, the first chunk of a longer one is
\* its BEGIN.
send_bytes_in_chunks(message, chunks) ==
  [i \in 1 .. chunks |->
     [transfer_state |-> CASE i = chunks -> "END" [] i < chunks /\ i = 1 -> "BEGIN" [] OTHER -> "MIDDLE",
      data |-> <<message, i, chunks>>]]

\* Faulty variant: the bytes of a finished message stay in the buffer.
ReceiveKeeping(bytes_buffer, item) ==
  LET bytes == IF item.transfer_state = "BEGIN" THEN <<item.data>>
               ELSE Append(bytes_buffer, item.data)
  IN  [bytes_buffer |-> bytes,
       complete |-> IF item.transfer_state = "END" THEN <<bytes>> ELSE <<>>]

\* What is in the buffer after a chunk, and the message it completes, if any.
receive_bytes_in_chunks(bytes_buffer, item) ==
  LET bytes == IF item.transfer_state = "BEGIN" THEN <<item.data>>
               ELSE Append(bytes_buffer, item.data)
  IN  IF item.transfer_state = "END"
      THEN [bytes_buffer |-> <<>>, complete |-> <<bytes>>]
      ELSE [bytes_buffer |-> bytes, complete |-> <<>>]

\* The bytes of one message, all of them and in order, can be loaded.
Whole(bytes) ==
  bytes # <<>> /\ \A i \in DOMAIN bytes : bytes[i] = <<bytes[1][1], i, Len(bytes)>>
================================================================================
