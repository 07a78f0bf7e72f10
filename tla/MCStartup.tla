----------------------------- MODULE MCStartup -----------------------------
(* Environments, configuration files and admin requests for Startup.          *)
EXTENDS Startup

StUrl(h, s) == [http |-> h, secure |-> s, plain |-> TRUE]
Https == StUrl(TRUE, TRUE)
OAuthOf(g, c, s) == [type |-> "oauth", grant |-> g, client |-> c, secret |-> s, scopes |-> TRUE]
Bearer(f) == [type |-> "bearer", filled |-> f]
SrvIn(id, url, has, auth, limits) ==
    [id |-> id, url |-> url, has_auth |-> has, auth |-> auth, limits |-> limits, filled |-> TRUE]
MCServerWrites ==
    {SrvIn("a", u, TRUE, OAuthOf(g, c, s), "ok") :
        u \in {Https, StUrl(TRUE, FALSE)}, g \in {"client_credentials", "authorization_code"},
        c \in {"absent", "ok"}, s \in {"absent", "secret://"}}
    \cup {SrvIn("a", Https, TRUE, OAuthOf("client_credentials", "ok", "plain"), "ok"),
          SrvIn("a", StUrl(TRUE, FALSE), FALSE, NoAuth, "ok"), SrvIn("exa", Https, TRUE, Bearer(FALSE), "ok"),
          SrvIn("exa", Https, TRUE, Bearer(TRUE), "zero"), SrvIn("r", Https, TRUE, Bearer(TRUE), "ok")}
ResIn(id, has, auth, pool, limits) ==
    [id |-> id, has_auth |-> has, auth |-> auth, pool |-> pool, limits |-> limits]
MCResourceWrites ==
    {ResIn("r", TRUE, Bearer(TRUE), "ok", "ok"), ResIn("r", FALSE, NoAuth, "none", "ok"),
     ResIn("r", TRUE, OAuthOf("client_credentials", "ok", "secret://"), "none", "ok"),
     ResIn("r", TRUE, Bearer(TRUE), "invalid", "ok"), ResIn("a", FALSE, NoAuth, "none", "zero"),
     ResIn("y", TRUE, Bearer(TRUE), "none", "ok"), ResIn("r", TRUE, NoAuth, "none", "ok"),
     ResIn("y", FALSE, NoAuth, "ok", "ok")}
MCPresets == [exa |-> "none", hotel |-> "keyed"]
NoOAuth == [redirect |-> [set |-> FALSE], key |-> "absent"]
FullOAuth == [redirect |-> [set |-> TRUE, http |-> TRUE, secure |-> TRUE, plain |-> TRUE], key |-> "secret://"]
PlainYaml == [there |-> TRUE, keys |-> {[mode |-> "lazy", ref |-> TRUE, digest |-> "absent"]}, max_body_bytes |-> 1,
              oauth |-> NoOAuth, builtin |-> <<"exa", "exa">>, servers |-> {}, resources |-> {Resource("y", NoAuth, "none", "ok")}]
MCFileAt == [flag |-> PlainYaml, env |-> [PlainYaml EXCEPT !.oauth = FullOAuth, !.builtin = <<>>],
             xdg |-> [PlainYaml EXCEPT !.builtin = <<"exa", "hotel">>],
             home |-> [PlainYaml EXCEPT !.max_body_bytes = 0],
             appdata |-> [PlainYaml EXCEPT !.keys = {[mode |-> "lazy", ref |-> TRUE, digest |-> "hex"]}],
             none |-> Missing]
MCEnvironments == {[explicit |-> e, configured |-> c, xdg |-> x, home |-> h, appdata |-> "abs", platform |-> p] :
                     e \in {"flag", "absent"}, c \in {"absent", "blank", "env"}, x \in {"relative", "abs"},
                     h \in {"absent", "abs"}, p \in {"linux", "windows", "other"}}
=============================================================================
