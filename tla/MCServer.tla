------------------------------ MODULE MCServer ------------------------------
(* Small instances of Server for TLC.                                      *)
EXTENDS Server

CONSTANTS c1, c2

File(plain, tls, http, interval) ==
  [section |-> TRUE, plain |-> plain, tls |-> tls, http |-> http, interval |-> interval]

(* Files with both addresses, HTTP and an interval of one second; the same *)
(* with two seconds; with TLS only and less than a second; without an      *)
(* address; and without a broker section.                                  *)
AllFiles == {File(TRUE, TRUE, TRUE, 2), File(TRUE, TRUE, FALSE, 4), File(FALSE, TRUE, FALSE, 1),
             File(FALSE, FALSE, TRUE, 2), NoConfig}

=============================================================================
