------------------------------ MODULE DisplayHex ------------------------------
(***************************************************************************)
(* Hashes as texts in files and on the terminal (crates/cli/src/main.rs).  *)
(* The display form of a hash is its bytes in reverse, in hex; a text of   *)
(* this kind is told from the hash, so that a forgotten reversal shows.    *)
(* Programs write one spelling, lower-case letters and no blanks; vaa      *)
(* trims what it reads and takes capitals too.                             *)
(***************************************************************************)
\* A text that is not 32 bytes of hex, and so the display of no hash.
Malformed == [garbled |-> TRUE]

internal_to_display(h) == [reversed |-> h, spelling |-> "as written"]

\* Another text of the same hash: in capitals.
Capitals(h) == [reversed |-> h, spelling |-> "capitals"]

Decodes(text) == "reversed" \in DOMAIN text

display_to_internal(text) == text.reversed

\* Vectors of hashes, as texts and back.
Displayed(v) == [i \in DOMAIN v |-> internal_to_display(v[i])]

Read(texts) == [i \in DOMAIN texts |-> display_to_internal(texts[i])]
===============================================================================
