------------------------------ MODULE MCCrawl ------------------------------
EXTENDS Crawl

Page(host, path) == [host |-> host, path |-> path, plain |-> TRUE]

\* Two pages of an allowed host, one of another allowed host, one that carries
\* a password, one of a host that is not allowed.
Addresses ==
    {Page("example.com", "/"), Page("example.com", "/private"),
     Page("www.iana.org", "/"), Page("google.com", "/"),
     [host |-> "example.com", path |-> "/", plain |-> FALSE]}
=============================================================================
