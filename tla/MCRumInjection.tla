--------------------------- MODULE MCRumInjection ---------------------------
EXTENDS RumInjection

AllResponses ==
  {Html, [Html EXCEPT !.html = FALSE], [Html EXCEPT !.encoded = TRUE],
   [Html EXCEPT !.empty = TRUE], [Html EXCEPT !.already = TRUE]}

NotHtml == {[Html EXCEPT !.html = FALSE]}
=============================================================================
