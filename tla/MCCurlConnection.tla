-------------------------- MODULE MCCurlConnection --------------------------
(* A small instance of CurlConnection. *)
EXTENDS CurlConnection

\* Statuses of each kind.
MCStatuses    == {200, 404, 429, 500}

\* A Retry-After of two seconds, and one that has passed.
MCRetryAfters == {0, 2}

\* The test override, and the default of 15 s.
MCBaseDelays  == {50, 15000}

MCChunkSizes  == {1, 2}
MCUrls        == {"versions", "files"}
MCBodies      == {"", "json"}

=============================================================================
