------------------------- MODULE MCTelegramPolling -------------------------
(***************************************************************************)
(* Instances of TelegramPolling: the kinds of proxy, with and without TLS. *)
(***************************************************************************)
EXTENDS TelegramPolling

Config(proxy, auth, port443) ==
    [proxy |-> proxy, auth |-> auth, port443 |-> port443, use_ssl |-> FALSE]

MCConfigs ==
    {Config("none", FALSE, TRUE), Config("http", FALSE, TRUE), Config("socks5", TRUE, FALSE)}
MCHttpsProxy == {Config("https", FALSE, TRUE)}
=============================================================================
