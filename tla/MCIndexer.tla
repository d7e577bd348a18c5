----------------------------- MODULE MCIndexer ------------------------------
(* Five blocks: an Ethereum transaction of two messages, one that the       *)
(* events do not mention with a Cosmos transaction, one that failed for the *)
(* block's gas, an Ethereum transaction again, and none.                    *)
EXTENDS Indexer

Tx(eth, failed, msgs) ==
    [valid |-> TRUE, decodes |-> TRUE, eth |-> eth, parses |-> TRUE,
     failed |-> failed, msgs |-> msgs]
Found == [found |-> TRUE]
NotFound == [found |-> FALSE]

MCChain ==
    << <<Tx(TRUE, FALSE, <<Found, Found>>)>>,
       <<Tx(TRUE, FALSE, <<NotFound>>), Tx(FALSE, FALSE, <<Found>>)>>,
       <<Tx(TRUE, TRUE, <<NotFound>>)>>,
       <<Tx(TRUE, FALSE, <<Found>>)>>,
       <<>> >>
=============================================================================
