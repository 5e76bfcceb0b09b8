---------------------------- MODULE MCMigration ----------------------------
(***************************************************************************)
(* Small exports for Migration: one that loads, one whose author has an    *)
(* avatar (authors come before media), two users without a phone, two      *)
(* users with the same empty email, a child category before its parent, a  *)
(* post without an author, and a post that comes twice.                    *)
(***************************************************************************)
EXTENDS Migration, Sequences

Exported(kind, id, keys, links) == [kind |-> kind, id |-> id, keys |-> keys, links |-> links, text |-> "exported"]

Slug(slug) == {<<"slug", slug>>}

User(id, phone, email) ==
    Exported("user", id, phone \cup {<<"username", id>>} \cup {<<"email", e>> : e \in email}, <<>>)

Phone(n) == {<<"phone", n>>}

Author(user, avatar) == Exported("authorprofile", 0, {}, [user_id |-> user, avatar_id |-> avatar])

Media(id, user) == Exported("media", id, {}, [uploaded_by_id |-> user])

Category(id, slug, parent) == Exported("category", id, Slug(slug), [parent_id |-> parent])

Post(id, slug, author, category) ==
    Exported("post", id, Slug(slug), [author_id |-> author, category_id |-> category, series_id |-> 0,
                           cover_media_id |-> 0, og_image_id |-> 0])

Comment(id, post, user, parent) ==
    Exported("comment", id, {}, [post_id |-> post, user_id |-> user, parent_id |-> parent])

Tag(post, tag) == Exported("posttag", 0, {}, [post_id |-> post, tag_id |-> tag])

MCExports ==
    {<<User(1, {}, {}), Author(1, 0), Category(1, "a", 0), Category(2, "b", 1), Exported("tag", 1, Slug("a"), <<>>),
       Post(1, "p", 1, 2), Tag(1, 1), Comment(1, 1, 1, 0), Comment(2, 1, 1, 1)>>,
     <<User(1, Phone(1), {}), Media(1, 1), Author(1, 1)>>,
     <<User(1, {}, {}), User(2, {}, {})>>,
     <<User(1, Phone(1), {""}), User(2, Phone(2), {""})>>,
     <<User(1, Phone(1), {}), Category(1, "a", 2), Category(2, "b", 0)>>,
     <<User(1, Phone(1), {}), Author(1, 0), Post(1, "p", 0, 0)>>,
     <<User(1, Phone(1), {}), Author(1, 0), Post(1, "p", 1, 0), [Post(1, "q", 1, 0) EXCEPT !.text = "later"]>>}

MCOthers == {<<"category", <<"slug", "a">>>>, <<"category", <<"slug", "c">>>>, <<"post", <<"slug", "p">>>>}
=============================================================================
