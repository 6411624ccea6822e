---------------------------- MODULE HttpEmbedder ----------------------------
(***************************************************************************)
(* The embedding provider behind an OpenAI-compatible URL                  *)
(* (crates/nomiso-embed/src/http_embed.rs) and the client's use of it for  *)
(* one text (crates/nomiso-service/src/lib.rs).  A provider may answer     *)
(* anything; a vector is the text it was computed from, and its length.    *)
(***************************************************************************)
EXTENDS Naturals, Sequences, FiniteSetsExt

CONSTANT Dimension   \* of the store, which the provider was configured for

\* What comes back: how the exchange ended, and the items of the body.
Item == [index : Nat, length : Nat, finite : BOOLEAN, text : Nat]
Ended == {"no_key", "timeout", "unreachable", "refused", "oversized", "garbled", "answered"}

\* send_embed, up to the decoded body.
TransportCode(ended) ==
    CASE ended = "answered" -> "ok"
      [] ended = "timeout" -> "deadline_exceeded"
      [] ended \in {"no_key", "unreachable", "refused"} -> "provider_unavailable"
      [] ended \in {"oversized", "garbled"} -> "invalid_provider_response"

\* validate_embed_response, item by item.
ItemCode(items, k, n) ==
    IF \/ items[k].index >= n \/ items[k].length = 0
       \/ \E j \in 1..(k - 1) : items[j].index = items[k].index
    THEN "invalid_provider_response"
    ELSE IF items[k].length # Dimension THEN "dimension_mismatch"
    ELSE IF ~items[k].finite THEN "invalid_provider_response" ELSE "ok"

BodyCode(items, n) ==
    LET faulty == {k \in DOMAIN items : ItemCode(items, k, n) # "ok"}
    IN  IF Len(items) # n THEN "invalid_provider_response"
        ELSE IF faulty = {} THEN "ok" ELSE ItemCode(items, Min(faulty), n)

\* The texts the vectors were computed from, in the order asked.
Vectors(items, n) ==
    [k \in 1..n |-> items[CHOOSE j \in DOMAIN items : items[j].index = k - 1].text]

\* embed_one: the code, and the vector if it is ok.
EmbedOne(reply) ==
    LET code == IF TransportCode(reply.ended) # "ok" THEN TransportCode(reply.ended)
                ELSE BodyCode(reply.items, 1)
    IN  [code |-> code, vector |-> IF code = "ok" THEN Vectors(reply.items, 1)[1] ELSE 0]
=============================================================================
