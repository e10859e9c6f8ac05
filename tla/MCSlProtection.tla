--------------------------- MODULE MCSlProtection ---------------------------
(* Books for TLC: the ones each question about SlProtection is asked of. *)
EXTENDS SlProtection

AllBooks  == {<<"live", "high">>, <<"live", "low">>, <<"penny", "floor">>,
              <<"zero", "floor">>, <<"none", "low">>, <<"live", "none">>}
\* The book dies and comes back below the stop.
Reviving  == {<<"live", "high">>, <<"live", "low">>, <<"penny", "floor">>}
\* The ask side empties near settlement.
LosingAsk == {<<"live", "high">>, <<"live", "none">>}
=============================================================================
