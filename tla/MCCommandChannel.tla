--------------------------- MODULE MCCommandChannel ---------------------------
(* CommandChannel on a small id space: it wraps many times in a run. *)
EXTENDS CommandChannel

\* startSession of http_server.ts and rtsp_server.ts: startVideoStream
StreamLogin == <<"VideoParamSet", "StartVideo">>
\* onLogin of pair.ts
PairLogin == <<"ListWifi">>
=============================================================================
