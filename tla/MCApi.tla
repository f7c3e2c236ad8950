-------------------------------- MODULE MCApi --------------------------------
(* Api without a token, and with tokens in which URLs and headers treat a    *)
(* character specially.                                                      *)
EXTENDS Api

MCTokens == {<<>>, <<"s">>, <<" ", "s">>, <<"s", "+">>}
==============================================================================
