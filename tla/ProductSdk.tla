----------------------------- MODULE ProductSdk -----------------------------
(***************************************************************************)
(* The Python client of the product's HTTP routes                          *)
(* (sdk/python/nomiso_vegapunk/client.py).                                 *)
(***************************************************************************)
EXTENDS Handlers

\* A method refuses an argument it has not; recalls and prepare_context hand
\* any further argument to the server.
SdkWrites ==
    [remember |-> TakesOnly({"key", "category", "confidence", "source", "episodic"}),
     apply_ops |-> TakesOnly({"ops"}),
     supersede |-> TakesOnly({"version"}),
     checkpoint |-> TakesOnly({"force"})]

Anything(op, server) == Takes(server[op].takes)

SdkReads(server) ==
    [recall |-> Anything("recall", server), hard_recall |-> Anything("hard_recall", server),
     read |-> TakesOnly({})]

SdkController(server) ==
    [prepare_context |-> Anything("prepare_context", server),
     record_insertion |-> TakesOnly(Correlation),
     trace_outcome |-> TakesOnly({"evaluator", "note"})]

SdkState == [put_state |-> TakesOnly({"version"}), get_state |-> TakesOnly({"version"})]

SdkMethods(server) ==
    Merged({SdkWrites, SdkReads(server), SdkController(server), SdkState})

\* Mutant: it never counts what it sent.
SdkSendsForever(intent, sent) == sent > 0 /\ "key" \in intent.given

\* _is_idempotent_key, with _retried: a request that could not be sent is sent
\* once more if it carries a key.
SdkSendsAgain(intent, sent) == sent = 1 /\ "key" \in intent.given
=============================================================================
