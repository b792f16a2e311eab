---------------------------- MODULE MCFtpProxy ----------------------------
(* The event loop on small instances: two configured servers.              *)
EXTENDS FtpProxy

MCServers == <<"a", "b">>
=============================================================================
