------------------------------ MODULE Allocator ------------------------------
(***************************************************************************)
(* What mm_malloc, mm_free and mm_realloc promise a program, as mdriver.c  *)
(* checks it: payloads are aligned, lie in the memory the allocator        *)
(* manages and do not overlap; a payload's contents change only when its   *)
(* holder writes them; mm_realloc moves a payload with the contents that   *)
(* fit.  Where a payload is put, and when a request is refused, is free.   *)
(***************************************************************************)
EXTENDS Integers

CONSTANTS
  Lo, Hi,   \* the addresses that may be handed out: Lo .. Hi - 1
  Align,    \* alignment of payload addresses
  Sizes,    \* the sizes a caller asks for
  Tags      \* the values a caller fills payloads with

VARIABLE held  \* payload address -> size, bytes in use and the values in them

\* A payload of size bytes can be put at p besides the payloads of h.
Fits(h, p, size) ==
  /\ p % Align = 0
  /\ Lo <= p /\ p + size <= Hi
  /\ \A q \in DOMAIN h : p + size <= q \/ q + h[q].size <= p

With(h, p, what) == [q \in DOMAIN h \union {p} |-> IF q = p THEN what ELSE h[q]]
Without(h, p) == [q \in DOMAIN h \ {p} |-> h[q]]

Init == held = [p \in {} |-> 0]

\* The holder fills the payload it has obtained.
Malloc(p, size, tag) ==
  /\ Fits(held, p, size)
  /\ held' = With(held, p, [size |-> size, kept |-> size, data |-> {tag}])

Free(p) == held' = Without(held, p)

Realloc(p, q, size) ==
  /\ Fits(Without(held, p), q, size)
  /\ held' = With(Without(held, p), q,
                  [size |-> size,
                   kept |-> IF size < held[p].kept THEN size ELSE held[p].kept,
                   data |-> held[p].data])

\* The whole heap is given up.
Reset == held' = [p \in {} |-> 0]

Next ==
  \/ \E p \in Lo .. (Hi - 1), size \in Sizes \ {0}, tag \in Tags : Malloc(p, size, tag)
  \/ \E p \in DOMAIN held : Free(p)
  \/ \E p \in DOMAIN held, q \in Lo .. (Hi - 1), size \in Sizes \ {0} : Realloc(p, q, size)
  \/ Reset

Spec == Init /\ [][Next]_held
=============================================================================
