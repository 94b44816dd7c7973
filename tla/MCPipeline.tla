----------------------------- MODULE MCPipeline -----------------------------
(* Pipeline on two companies, for TLC.                                     *)
EXTENDS Pipeline

(* What each page may be read as: a homepage that explains the company or  *)
(* does not, an about page that may name the founder, a team with an       *)
(* adviser who is a customer's, a blog whose news contradicts another      *)
(* page's, a customer's story whose hook quotes a figure, and a price that *)
(* only a hook has.                                                        *)
Base == {"what_they_do", "target_customer", "positioning", "business_model"}
MCReadings ==
    [p \in {"home", "press", "about", "team", "blog", "customers", "product", "pricing"} |->
        CASE p = "home" -> {{}, Base, Base \cup {"recent_signal"}}
          [] p = "press" -> {{}, Base}
          [] p = "about" -> {{}, {"founder"}}
          [] p = "team" -> {{}, {"founder"}, {"adviser"}}
          [] p = "blog" -> {{}, {"recent_signal", "conflict"}}
          [] p = "customers" -> {{}, {"customers", "adviser", "what_they_do", "figure_quote"}}
          [] p = "product" -> {{}, {"positioning", "product_depth"}}
          [] p = "pricing" -> {{}, {"price_quote"}}]

(* A page of the team, and two of the blog.                                *)
MCSections == [p \in {"team", "post", "note"} |-> IF p = "team" THEN "team" ELSE "blog"]
=============================================================================
