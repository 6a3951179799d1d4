---------------------------- MODULE MCThreadPool ----------------------------
EXTENDS ThreadPool
\* more chunks than threads behind a sliced stage, a skipped node, fewer chunks
\* than threads
MCGraphs == {<< <<0, 4>>, <<>>, <<2>> >>}
=============================================================================
