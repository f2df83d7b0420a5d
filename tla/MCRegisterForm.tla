--------------------------- MODULE MCRegisterForm ---------------------------
(* Two countries; several states, in both, have a city of the same name.    *)
EXTENDS RegisterForm

At(c, s, x) == [country |-> c, state |-> s, city |-> x]
SomePlaces ==
    {At("br", "ce", "sobral"), At("br", "ce", "salem"), At("br", "ce", "crato"),
     At("br", "pe", "salem"), At("br", "pe", "recife"),
     At("usa", "or", "salem"), At("usa", "or", "astoria"),
     At("usa", "tx", "paris"), At("usa", "tx", "salem"), At("usa", "tx", "reno"),
     At("usa", "nv", "reno"), At("usa", "nv", "salem")}
=============================================================================
