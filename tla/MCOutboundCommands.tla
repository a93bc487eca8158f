------------------------- MODULE MCOutboundCommands -------------------------
(* Small instances of OutboundCommands for TLC.                            *)
EXTENDS OutboundCommands, TLC

CONSTANT o1

\* The hook's accept beside a console reject.
RaceCommands ==
    {<<o1, "ACCEPT_ORDER", "AUTO">>, <<o1, "REJECT_ORDER", "k">>}
\* Both lifecycle hooks of an order, a console reject, and two contests of the
\* order under different idempotency keys.
OrderCommands ==
    RaceCommands \cup
    {<<o1, "MARK_READY", "AUTO">>,
     <<o1, "CONTEST_CANCELLATION", "k">>, <<o1, "CONTEST_CANCELLATION", "m">>}
\* A listing-scoped command.
OneCommand == {<<NoOrder, "NOTIFY_MENU_UPDATED", "k">>}

Symmetry == Permutations(Callers) \cup Permutations(Workers)
=============================================================================
