---- MODULE UpstreamSel ----
(***************************************************************************)
(* What a connect asks for, from the words on a command line to the         *)
(* forwarder of the proxy: parse_upstream of voidns-cli and voidns-service,  *)
(* UpstreamSel and its label (voidns-proto), upstream_name_servers and      *)
(* build_client_config (voidns-core/src/proxy.rs).                          *)
(*                                                                          *)
(* A word is a string.  Two texts are read further: Addresses are the words *)
(* that parse as an IP address, PortNumbers those that parse as a u16.      *)
(***************************************************************************)
EXTENDS Sequences, Naturals

CONSTANTS Addresses, PortNumbers

Named == {"cloudflare", "google", "quad9", "voidns"}

\* The fields of a custom upstream are empty in the named ones.
Sel(kind, ip, hostname, path, port) ==
    [kind |-> kind, ip |-> ip, hostname |-> hostname, path |-> path, port |-> port]

NamedSel(kind) == Sel(kind, "", "", "", "")

NoSel == NamedSel("none")

\* parse_upstream: words beyond those it asks for are ignored; the address is not
\* looked at.
ParseUpstream(words) ==
    IF words # <<>> /\ Head(words) \in Named THEN NamedSel(Head(words))
    ELSE IF Len(words) >= 5 /\ words[1] = "custom" /\ words[5] \in PortNumbers
         THEN Sel("custom", words[2], words[3], words[4], words[5])
         ELSE NoSel

\* UpstreamSel::label: what a status shows.
Label(sel) ==
    CASE sel.kind = "cloudflare" -> "Cloudflare"
      [] sel.kind = "google"     -> "Google"
      [] sel.kind = "quad9"      -> "Quad9"
      [] sel.kind = "voidns"     -> "voidns"
      [] sel.kind = "custom"     -> sel.hostname

\* upstream_name_servers: the bootstrap addresses of a custom upstream are texts
\* until the proxy is started.
HasNameServers(sel) == sel.kind = "custom" => sel.ip \in Addresses

\* build_client_config: asked is whether VOIDNS_EXTRA_CA_FILE is set, file what can be
\* read there, or else at the default path.
ExtraCa(asked, file) == [asked |-> asked, file |-> file]

ClientConfigOk(ca) ==
    /\ ca.file # "broken"
    /\ ca.asked => ca.file # "unreadable"

\* DohProxy::start up to its sockets (build_forward_zone).
Forwards(sel, ca) == HasNameServers(sel) /\ ClientConfigOk(ca)

=============================================================================
