----------------------------- MODULE MCWsClient -----------------------------
\* Small instances of WsClient: one caller, as in the indexer and in every
\* backfill chunk, and two, as in the API.
EXTENDS WsClient

CONSTANTS c1, c2

BatchThenOne == <<2, 1>>
OneByOne == <<1, 1>>

=============================================================================
