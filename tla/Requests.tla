------------------------------ MODULE Requests ------------------------------
(***************************************************************************)
(* The requests of a run, as each protocol's task builds them from the     *)
(* configuration.  An http::HeaderMap is a function from lower-case names  *)
(* to the sequence of values under that name; a --path is "absolute",      *)
(* "relative" (no leading slash) or "invalid" (no part of a URI); a body   *)
(* is its length.  Of hosts and values that a library refuses one stands   *)
(* for all: Control, a string with a control character, and two spellings  *)
(* of an IPv6 address.                                                     *)
(***************************************************************************)
EXTENDS Integers, SequencesExt

Control == "^M"

\* Header names that occur.
HeaderNames == { "host", "user-agent", "content-length", "x-a", "" }

\* http::HeaderName and http::HeaderValue accept the header.  A value is the
\* sequence of its parts.
HeaderValue(value)  == value[1] # Control
ValidHeader(header) == header[1] # "" /\ HeaderValue(header[2])

\* http::Uri has an address of IPv6 in brackets only.
UriHost(host) == host \notin { "fe80::a", Control }

NoHeaders    == [name \in HeaderNames |-> << >>]
AppendTo(map, header)   == [map EXCEPT ![header[1]] = Append(@, header[2])]
InsertInto(map, header) == [map EXCEPT ![header[1]] = << header[2] >>]

\* Config::host_header: the port only if it is not the default one.
DefaultPort(scheme) == IF scheme = "http" THEN 80 ELSE 443

HostHeader(cfg) ==
  IF cfg.port = DefaultPort(cfg.scheme) THEN << cfg.host >>
  ELSE << cfg.host, cfg.port >>

\* The -H headers that http accepts, added to those the program sends itself.
StaticHeaders_Inserted(own, cfg) ==
  FoldLeft(LAMBDA map, header : IF ValidHeader(header) THEN InsertInto(map, header) ELSE map,
           own, cfg.headers)

StaticHeaders(own, cfg) ==
  FoldLeft(LAMBDA map, header : IF ValidHeader(header) THEN AppendTo(map, header) ELSE map,
           own, cfg.headers)

UserAgent        == << "user-agent", << "wrk-rs/0.1.0" >> >>
ContentLength(n) == << "content-length", << ToString(n) >> >>

\* HTTP/1 sends the path alone, the authority in a header, and replaces a
\* content-length of the user's.  An invalid path makes build_request panic.
H1Request(cfg) ==
  LET own     == AppendTo(AppendTo(NoHeaders, << "host", HostHeader(cfg) >>), UserAgent)
      headers == StaticHeaders(own, cfg)
  IN  [ method    |-> cfg.method,
        authority |-> headers["host"][1],
        path      |-> cfg.path,
        body      |-> cfg.body,
        headers   |-> IF cfg.body = 0 THEN headers
                      ELSE InsertInto(headers, ContentLength(cfg.body)) ]

\* HTTP/2 and HTTP/3 send the URI https://authority/path: a relative path
\* runs into the authority, and a host or a path that http::Uri refuses makes
\* it https://localhost/.
ValidUri(cfg) == UriHost(cfg.host) /\ cfg.path # "invalid"

MuxRequest(cfg, body, headers) ==
  [ method    |-> cfg.method,
    authority |-> CASE ~ValidUri(cfg)        -> << "localhost" >>
                    [] cfg.path = "relative" -> HostHeader(cfg) \o << cfg.path >>
                    [] OTHER                 -> HostHeader(cfg),
    path      |-> IF ValidUri(cfg) /\ cfg.path = "absolute" THEN cfg.path ELSE "/",
    body      |-> body,
    headers   |-> headers ]

\* HTTP/2 adds a content-length to one of the user's.
H2Request(cfg) ==
  LET headers == StaticHeaders(InsertInto(NoHeaders, UserAgent), cfg)
  IN  MuxRequest(cfg, cfg.body,
        IF cfg.body = 0 THEN headers ELSE AppendTo(headers, ContentLength(cfg.body)))

\* HTTP/3 builds the request without the body.
H3Request(cfg) == MuxRequest(cfg, 0, StaticHeaders(InsertInto(NoHeaders, UserAgent), cfg))

Request(version, cfg) ==
  CASE version = "Http1" -> H1Request(cfg)
    [] version = "Http2" -> H2Request(cfg)
    [] version = "Http3" -> H3Request(cfg)
=============================================================================
