--------------------------- MODULE PacketDecoding ---------------------------
(***************************************************************************)
(* packet.go: a Packet over the same bytes, decoded eagerly when it is     *)
(* created or lazily as its accessors are called.                          *)
(*                                                                         *)
(* Decoders are external.  A frame is the sequence of what they will find: *)
(* element i is what the decoder called on the i-th layer's bytes does,    *)
(*   type   the LayerType it adds,                                         *)
(*   role   the SetXLayer function it calls, "none" if it calls none,      *)
(*   trunc  whether it calls SetTruncated,                                 *)
(*   end    "next": it passes a decoder to NextDecoder; "stop": it returns *)
(*          nil without; "nil": it passes nil; "late": it returns an error *)
(*          after AddLayer; "error", "panic": it adds no layer.            *)
(* The payload of layer i is what follows it in the frame.                 *)
(***************************************************************************)
EXTENDS Integers, SequencesExt

CONSTANTS
    Frames,    \* the frames a packet may hold
    Classes    \* the arguments of LayerClass, sets of types; Layer(t) is {t}

Roles == {"link", "network", "transport", "application"}
None == 0

Decoder == [type : STRING, role : Roles \union {"none"}, trunc : BOOLEAN,
            end : {"next", "stop", "nil", "late", "error", "panic"}]

\* There are bytes: of none, the eager packet calls a decoder and the lazy none.
ASSUME FramesAssumption ==
    \A fr \in Frames : fr \in Seq(Decoder) /\ fr # <<>>

VARIABLES
    frame,     \* the bytes of the packet
    lazy       \* the lazyPacket

decodeVars == <<frame, lazy>>

\* packet: the layers, by their place in the frame; the indices in layers of
\* the important ones; next is 0 for nil and otherwise the next decoder.
NewPacket(next) ==
    [layers |-> <<>>, roles |-> [r \in Roles |-> None], failure |-> None,
     truncated |-> FALSE, next |-> next]

\* The number of layers that decoders added: a DecodeFailure is none of them.
Decoded(q) == IF q.failure = None THEN Len(q.layers) ELSE Len(q.layers) - 1

\* p.last.LayerPayload(), or all data, is empty; a failure has no payload.
NoPayload(fr, q) == q.failure # None \/ Decoded(q) = Len(fr)

\* SetLinkLayer and its like: the first one is kept.
SetLayer(q, role) ==
    IF role \in Roles /\ q.roles[role] = None
    THEN [q EXCEPT !.roles[role] = Len(q.layers)] ELSE q

AddLayer(q, d) == [q EXCEPT !.layers = Append(@, d.type)]

\* addFinalDecodeError: one more layer, and the first failure is kept.
addFinalDecodeError(q) ==
    [q EXCEPT !.layers = Append(@, "failure"),
              !.failure = IF @ = None THEN Len(q.layers) + 1 ELSE @]

\* What decoder d does to the builder before it calls NextDecoder.
Build(q, d) ==
    LET seen == [q EXCEPT !.truncated = @ \/ d.trunc] IN
    IF d.end \in {"error", "panic"} THEN seen ELSE SetLayer(AddLayer(seen, d), d.role)

Failed(d) == d.end \in {"error", "panic", "late", "nil"}

-----------------------------------------------------------------------------
(* The eager packet: NextDecoder calls the next decoder at once, unless    *)
(* there is nothing left to decode, and every decoder returns its error.   *)

eagerStep(fr, acc, d) ==
    IF acc.done THEN acc
    ELSE LET q == Build(acc.q, d)
         IN  [q |-> q, err |-> Failed(d), done |-> d.end # "next" \/ NoPayload(fr, q)]

initialDecode(fr) ==
    LET after[n \in 0..Len(fr)] ==
            IF n = 0 THEN [q |-> NewPacket(None), err |-> FALSE, done |-> FALSE]
            ELSE eagerStep(fr, after[n - 1], fr[n])
        end == after[Len(fr)]
    IN  IF end.err THEN addFinalDecodeError(end.q) ELSE end.q

-----------------------------------------------------------------------------
(* The lazy packet: NextDecoder only stores the decoder.                   *)

\* Mutant: after an error the decoder is kept, and called again.
decodeNextLayerAgain(fr, q) ==
    IF q.next = None THEN q
    ELSE LET d == fr[q.next]
             cleared == [q EXCEPT !.next = None]
             built == Build(cleared, d)
         IN  IF Decoded(q) = Len(fr) THEN cleared
             ELSE IF Failed(d) /\ Len(q.layers) < Len(fr)
                  THEN [addFinalDecodeError(built) EXCEPT !.next = q.next]
             ELSE IF d.end = "next" THEN [built EXCEPT !.next = q.next + 1] ELSE built

decodeNextLayer(fr, q) ==
    IF q.next = None THEN q
    ELSE LET cleared == [q EXCEPT !.next = None] IN
         IF NoPayload(fr, q) THEN cleared
         ELSE LET d == fr[q.next]
                  built == Build(cleared, d)
              IN  IF Failed(d) THEN addFinalDecodeError(built)
                  ELSE IF d.end = "next" THEN [built EXCEPT !.next = q.next + 1]
                  ELSE built

\* The loops of the accessors: decode until Enough, or until nothing is left.
DecodeUntil(fr, q, Enough(_)) ==
    LET after[n \in 0..(Len(fr) + 1)] ==
            IF n = 0 THEN q ELSE decodeNextLayer(fr, after[n - 1])
        enough == {n \in DOMAIN after : Enough(after[n]) \/ after[n].next = None}
    IN  after[Min(enough)]

\* The first layer of a class, None if there is none.
Find(q, class) ==
    LET found == {i \in DOMAIN q.layers : q.layers[i] \in class}
    IN  IF found = {} THEN None ELSE Min(found)

\* The lazy packet after a call of LinkLayer, NetworkLayer and so on; of
\* ErrorLayer; of Layers, String or Dump; of Layer or LayerClass.
AfterRole(fr, q, r) == DecodeUntil(fr, q, LAMBDA x : x.roles[r] # None)
AfterErrorLayer(fr, q) == DecodeUntil(fr, q, LAMBDA x : x.failure # None)
AfterLayers(fr, q) == DecodeUntil(fr, q, LAMBDA x : FALSE)
AfterLayerClass(fr, q, class) == DecodeUntil(fr, q, LAMBDA x : Find(x, class) # None)

DecodeInit ==
    /\ frame \in Frames
    /\ lazy = NewPacket(1)

RoleLayer(r) == lazy' = AfterRole(frame, lazy, r) /\ UNCHANGED frame
ErrorLayer == lazy' = AfterErrorLayer(frame, lazy) /\ UNCHANGED frame
Layers == lazy' = AfterLayers(frame, lazy) /\ UNCHANGED frame
LayerClass(class) == lazy' = AfterLayerClass(frame, lazy, class) /\ UNCHANGED frame

DecodeNext ==
    \/ \E r \in Roles : RoleLayer(r)
    \/ \E class \in Classes : LayerClass(class)
    \/ ErrorLayer
    \/ Layers

DecodeSpec == DecodeInit /\ [][DecodeNext]_decodeVars

-----------------------------------------------------------------------------
\* What a lazy packet has decoded at any time is a beginning of what the eager
\* packet holds: no accessor sees a layer that another order of calls would
\* not show, and Truncated is never set too early; a packet that has nothing
\* left to decode is the eager packet (decodeNextLayer).
LazyIsPrefix ==
    LET e == initialDecode(frame) IN
    /\ IsPrefix(lazy.layers, e.layers)
    /\ \A r \in Roles : lazy.roles[r] \in {None, e.roles[r]}
    /\ lazy.truncated => e.truncated
    /\ lazy.next = None => lazy = e

\* Whatever was called before, every accessor of the lazy packet returns what
\* that of the eager packet returns: the same layer, at the same place, also
\* where a decoder fails, panics or has no successor (lazyPacket, eagerPacket).
LazyAsEager ==
    LET e == initialDecode(frame) IN
    /\ LazyIsPrefix
    /\ \A r \in Roles : AfterRole(frame, lazy, r).roles[r] = e.roles[r]
    /\ \A class \in Classes : Find(AfterLayerClass(frame, lazy, class), class) = Find(e, class)
    /\ AfterErrorLayer(frame, lazy).failure = e.failure
    /\ AfterLayers(frame, lazy).layers = e.layers
=============================================================================
