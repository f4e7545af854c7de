----------------------------- MODULE RingBuffer -----------------------------
(***************************************************************************)
(* struct App_Ringbuffer of the gateway firmware, uart0_out and uart0_in.  *)
(* Its fields are uint8_t and its size is 256, so indices and length wrap  *)
(* at the size by themselves, and `length >= sizeof b->buffer` never       *)
(* holds: a write is never refused.                                        *)
(***************************************************************************)
EXTENDS Integers, Sequences

CONSTANT W    \* the size of the buffer, 256 in the code

ASSUME SizeAssumption == W \in Nat /\ W >= 12

Index == 0 .. W - 1
Wrap(n) == IF n >= W THEN n - W ELSE n

RingOf(S) == [buffer : [Index -> S], length : Index, wIndex : Index, rIndex : Index]

EmptyRing == [buffer |-> [i \in Index |-> 0], length |-> 0, wIndex |-> 0, rIndex |-> 0]

app_ringBuffer_clear(b) == [b EXCEPT !.length = 0, !.rIndex = 0, !.wIndex = 0]

\* Writes of the characters of s, one after the other, by an interrupt
\* handler that main() does not see half done; s is shorter than the buffer.
app_ringBuffer_writeString(b, s) ==
  LET place(i) == IF i >= b.wIndex THEN i - b.wIndex ELSE i + W - b.wIndex
  IN  [ buffer |-> [i \in Index |-> IF place(i) < Len(s) THEN s[place(i) + 1]
                                                         ELSE b.buffer[i]],
        length |-> Wrap(b.length + Len(s)),
        wIndex |-> Wrap(b.wIndex + Len(s)),
        rIndex |-> b.rIndex ]

\* app_ringBuffer_read() in main() is not atomic: it loads the length, and
\* later stores the loaded value less one and takes the character.
NextChar(b) == b.buffer[b.rIndex]
ReadStoreKeeps(b, loaded) == [b EXCEPT !.length = loaded, !.rIndex = Wrap(@ + 1)]
ReadStore(b, loaded) == [b EXCEPT !.length = loaded - 1, !.rIndex = Wrap(@ + 1)]

\* What has been written and not read.
Unread(b) == IF b.wIndex >= b.rIndex THEN b.wIndex - b.rIndex ELSE b.wIndex + W - b.rIndex
=============================================================================
