------------------------------ MODULE MCClient ------------------------------
(* Instance of Client for TLC: the client itself and two others, every kind  *)
(* of message, and CLIENT_LISTs that announce one too few and one too many.  *)
(* The lines are an empty one, LOG_OFF, another, and one that becomes        *)
(* LOG_OFF when a character is taken off.                                    *)
EXTENDS Client

CONSTANTS self, a, b

MCTuple == {self, a, b}

MCLine == {<<>>, <<"3">>, <<"x">>, <<"3", "x">>}

MCMessage == {UserOn(a), UserOff(a), ClientList(2, <<self, b>>), ClientList(1, <<b, a>>),
              ClientList(2, <<a>>), ClientList(0, <<>>)}
=============================================================================
