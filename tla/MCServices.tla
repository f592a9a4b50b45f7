---- MODULE MCServices ----
(***************************************************************************)
(* Services for TLC: two services, one that may find a broken extra CA, and  *)
(* command lines that name an upstream well, badly and not at all.          *)
(***************************************************************************)
EXTENDS Services

MCLines ==
    { <<>>, <<"status">>, <<"ping">>, <<"disconnect">>, <<"conect", "google">>,
      <<"connect", "google">>,
      <<"connect", "custom", "10.0.0.1", "doh.lan", "/q">>,
      <<"connect", "custom", "10.0.0.1", "doh.lan", "/q", "8443">>,
      <<"connect", "custom", "doh.lan", "doh.lan", "/q", "443">>,
      <<"connect", "custom", "10.0.0.1", "doh.lan", "/q", "65536">> }

MCExtraCas == {ExtraCa(FALSE, "unreadable"), ExtraCa(TRUE, "unreadable")}

=============================================================================
