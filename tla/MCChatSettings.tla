--------------------------- MODULE MCChatSettings ---------------------------
EXTENDS ChatSettings
\* the default top_p is on a position whose value is the float after its hundredths,
\* and 13 is one whose value is the float before
MCMoves == {<<"max_tokens", 0>>, <<"top_p", 13>>}
=============================================================================
